---- MODULE Spec2Model ----
(***************************************************************************)
(* A model of the mem0 evaluation harness (src/evaluation):                *)
(*   - the LongMemEval data converter (longmemeval/data_converter.py),     *)
(*   - the two memory adders (longmemeval/add.py, memzero/add.py): batch   *)
(*     splitting, the admission semaphore, the retry loop and the          *)
(*     as_completed accumulation loop,                                     *)
(*   - the LongMemEval searcher (longmemeval/search.py): the per-depth     *)
(*     loop with its two retry loops and the token-count policy,           *)
(*   - the scoring stage (evals.py, generate_scores.py): the worker pool,  *)
(*     the merge loop, the saved mapping and the category means,           *)
(*   - the two-speaker searcher (memzero/search.py): the loop over         *)
(*     conversations and questions, and the lock-guarded snapshot write.   *)
(* Python lists are sequences (position p of a list is index p+1 here);    *)
(* indices the code stores (session_index, batch_index, attempt) keep the  *)
(* code's 0-based values.  Python dicts are records; dict.get is Get.      *)
(***************************************************************************)
EXTENDS Integers, Sequences, FiniteSets, TLC

(* ------------------------------------------------------------------ *)
(* Bounds of the model                                                 *)
(* ------------------------------------------------------------------ *)
MaxMessages == 3
MaxBatchSize == 2
MaxConcurrent == 2
MaxMzConversations == 1
MaxSessions == 2
MaxTurns == 3
MaxDepths == 2

(* ------------------------------------------------------------------ *)
(* Program constants                                                   *)
(* ------------------------------------------------------------------ *)
AddRetries == 3
CharsPerToken == 4
SearchMaxRetries == 3

None == "None"

VARIABLES
    \* ---- memory adders (longmemeval/add.py, memzero/add.py)
    adder,              \* which adder runs: "longmemeval" | "memzero" | "idle"
    add_input,          \* conversation_data (longmemeval) or self.data (memzero)
    batch_size,         \* self.batch_size
    max_concurrent,     \* the max_concurrent argument
    tasks_data,         \* the batches, in submission order: [conv, msgs]
    sem_value,          \* free permits of the asyncio.Semaphore
    tpc,                \* per task: "waiting" | "post" | "sleep" | "done"
    attempt,            \* per task: the loop variable of `for attempt in range(retries)`
    posts,              \* per task: POST requests issued so far
    tresult,            \* per task: NotReturned, or what the coroutine returned
    final_response,     \* per task: None, or the response that ended its attempts
    got_ok,             \* per task: a POST of it has been answered successfully
    completed,          \* as_completed's queue: finished tasks not yet awaited
    awaited,            \* futures the caller's loop has awaited so far
    apc,                \* the caller: "init" | "await" | "returned" | "raised"
    acc,                \* total_tokens, successful_batches, failed_batches
    metrics,            \* NotReturned, or the returned add_phase dictionary
    timed,              \* the model follows the readings of time.time()
    clock,              \* time.time() of the adder's event loop, in seconds
    start_time,         \* per task: start_time of _async_add_messages
    end_time,           \* per task: the clock when the coroutine returned
    \* ---- pure functions: converter and batch splitting
    fpc,                \* "start" | "converted" | "sparse_converted" | "convert_raised"
                        \* | "conv_split" | "split" | "mz_split"
    conversation_data,  \* a LongMemEval record
    conv_messages,      \* messages returned by convert_conversation_to_mem0_format
    converted,          \* the converted conversation convert_dataset appends
    split_in,           \* a message list handed to the batch splitting
    split_bs,           \* the batch size used for the splitting
    split_out,          \* the batches formed from split_in
    mz_item,            \* a memzero dataset item (speaker_a/b and session keys)
    mz_tasks,           \* tasks_data built by MemoryADD._run_tasks for [mz_item]
    \* ---- the LongMemEval pipeline (run_longmemeval_eval.py)
    run_pc,             \* "idle" | "init" | "loop" | "done"
    converted_data,     \* the converted conversations the loop walks
    run_idx,            \* idx of the loop
    run_results,        \* `results` of run_longmemeval_evaluation
    run_outcomes,       \* per processed conversation: "ok", or the stage that raised
    intermediate_files, \* the intermediate_results_<n>.json files written
    \* ---- the mem0 pipeline (run_mem0_evaluation.py)
    m0_pc,              \* "idle" | "init" | "search" | "returned" | "raised"
    m0_files,           \* files run_evaluation itself has written, in order
    m0_error,           \* None, or the exception run_evaluation raised
    \* ---- searchers (longmemeval/search.py, full_context.py)
    searcher,           \* "longmemeval" | "full_context" | "idle"
    spc,                \* "init" | "search" | "generate" | "done" | "raised"
    top_k_values,       \* requested depths (search_and_respond)
    fc_questions,       \* the questions of the conversation (full context)
    depth_i,            \* 0-based position in top_k_values / fc_questions
    retries,            \* the retry counter of the running retry loop
    calls,              \* calls issued for the current depth: [search, generate]
    memories,           \* memories returned by the current depth's search
    search_time,        \* search time of the current depth, in ms
    search_results,     \* the results list built so far
    depth_outcomes,     \* per finished depth: "ok" | "search_failed" | "generate_failed"
    provider_usage,     \* per finished depth: the usage of the response that answered it
    depth_calls,        \* per depth: how its search call and its generation call ended
    \* ---- scoring (evals.py, generate_scores.py)
    eval_data,          \* `data` of main: the loaded input file, [key, value] entries
    max_workers,        \* args.max_workers
    wpc,                \* per future: "pending" | "running" | "done" | "raised"
    item_i,             \* per future: 0-based position of process_item's loop in v
    local_results,      \* per future: local_results of its process_item call
    judge_calls,        \* per future, per item of v: calls of evaluate_llm_judge made
    done_futures,       \* futures that have finished (returned or raised)
    merged,             \* futures as_completed has yielded to main's loop
    mpc,                \* main: "init" | "merge" | "saved" | "scored" | "raised" | "scores_raised"
    eval_results,       \* `results` of main
    output_file,        \* content of args.output_file once mpc is "saved"
    scores,             \* (category_result, overall_means) once mpc is "scored"
    \* ---- two-speaker searcher (memzero/search.py)
    is_graph,           \* self.is_graph
    ms_data,            \* `data` of process_data_file: the loaded dataset
    ms_pc,              \* "init" | "search_1" | "search_2" | "generate" | "map"
                        \* | "save_lock" | "save_open" | "save_dump" | "save_close"
                        \* | "done" | "returned" | "raised"
    ms_idx,             \* idx of the loop over conversations
    ms_q,               \* 0-based position of the loop over qa
    ms_retries,         \* `retries` of the running search_memory call
    ms_found,           \* what the search_memory calls of this question returned
    ms_results,         \* self.results
    lock_holder,        \* None, or the thread inside `with self.lock`
    disk_file,          \* the file at self.output_path
    dump_i,             \* entries of the mapping json.dump has written so far
    flushes,            \* calls of _save_to_disk that have returned
    last_flushed,       \* the file as the latest returned _save_to_disk left it
    appended,           \* self.results was appended to since that call
    ms_error,           \* None, or the exception that ended the running method
    answer_prompt,      \* self.ANSWER_PROMPT: the name of the template
    ms_call,            \* "none" | "process_data_file" | "process_questions_parallel"
    ms_ops,             \* process_data_file: the retrievals that returned and the
                        \* generation calls made, in order, tagged with idx and q
    \* ---- process_questions_parallel of the two-speaker searcher
    qa_list,            \* the questions handed to process_questions_parallel
    pq_workers,         \* max_workers of the thread pool
    pq_pc,              \* per question: "pending" | "search_1" | "search_2" |
                        \* "generate" | "done" | "raised" | "cancelled"
    pq_retries,         \* per question: `retries` of its running search_memory call
    pq_found,           \* per question: what its search_memory calls returned
    pq_out,             \* per question: the result of process_single_question
    pq_ops,             \* per question: its retrievals and generation calls
    pq_finished,        \* the questions in the order their futures finished
    qa_results          \* the results executor.map has yielded so far

addVars == <<adder, add_input, batch_size, max_concurrent, tasks_data, sem_value, tpc,
             attempt, posts, tresult, final_response, got_ok, completed, awaited,
             apc, acc, metrics, timed, clock, start_time, end_time>>
convVars == <<fpc, conversation_data, conv_messages, converted, split_in, split_bs,
              split_out, mz_item, mz_tasks>>
runVars == <<run_pc, converted_data, run_idx, run_results, run_outcomes,
             intermediate_files>>
mem0Vars == <<m0_pc, m0_files, m0_error>>
funVars == <<convVars, runVars, mem0Vars>>
searchVars == <<searcher, spc, top_k_values, fc_questions, depth_i, retries, calls,
                memories, search_time, search_results, depth_outcomes,
                provider_usage, depth_calls>>
scoreVars == <<eval_data, max_workers, wpc, item_i, local_results, judge_calls,
               done_futures, merged, mpc, eval_results, output_file, scores>>
pqVars == <<qa_list, pq_workers, pq_pc, pq_retries, pq_found, pq_out, pq_ops,
            pq_finished, qa_results>>
msVars == <<is_graph, ms_data, ms_pc, ms_idx, ms_q, ms_retries, ms_found, ms_results,
            lock_holder, disk_file, dump_i, flushes, last_flushed, appended,
            ms_error, answer_prompt, ms_call, ms_ops, pqVars>>
vars == <<addVars, funVars, searchVars, scoreVars, msVars>>

(* ------------------------------------------------------------------ *)
(* Python helpers                                                      *)
(* ------------------------------------------------------------------ *)
Min(a, b) == IF a < b THEN a ELSE b

\* dict.get(key, default)
Get(d, key, default) == IF key \in DOMAIN d THEN d[key] ELSE default

\* seq[i:j] with 0 <= i <= j: the elements at 0-based positions i..j-1,
\* cut at the end of the list
Slice(seq, i, j) == SubSeq(seq, i + 1, Min(j, Len(seq)))

RECURSIVE SumSeq(_)
SumSeq(s) == IF s = <<>> THEN 0 ELSE Head(s) + SumSeq(Tail(s))

RECURSIVE Flatten(_)
Flatten(ss) == IF ss = <<>> THEN <<>> ELSE Head(ss) \o Flatten(Tail(ss))

\* The sequences over S of length at most n
SeqsUpTo(S, n) == UNION {[1..k -> S] : k \in 0..n}

\* ceil(a / b) for a >= 0, b >= 1
CeilDiv(a, b) == (a + b - 1) \div b

\* `sub in key` for two strings
Contains(key, sub) ==
    \E i \in 1..(Len(key) - Len(sub) + 1) : SubSeq(key, i, i + Len(sub) - 1) = sub

\* key.endswith(suffix)
EndsWith(key, suffix) ==
    /\ Len(key) >= Len(suffix)
    /\ SubSeq(key, Len(key) - Len(suffix) + 1, Len(key)) = suffix

\* An insertion-ordered dict is a sequence of [key, value] entries.
DictKeys(d) == [i \in 1..Len(d) |-> d[i].key]
DictHas(d, key) == \E i \in 1..Len(d) : d[i].key = key
DictGet(d, key, default) ==
    IF DictHas(d, key)
    THEN d[CHOOSE i \in 1..Len(d) : d[i].key = key].value
    ELSE default

(* ------------------------------------------------------------------ *)
(* longmemeval/data_converter.py                                       *)
(* ------------------------------------------------------------------ *)
\* f"{conversation_id}_session{session_idx}_turn{len(messages)}"
TurnId(conversation_id, session_idx, n) ==
    conversation_id \o "_session" \o ToString(session_idx) \o "_turn" \o ToString(n)

\* Mutant: the turn number is the position of the turn inside its session.
ConvertTurnNumbersInSession(turn, session_idx, session_date, conversation_id, messages) ==
    [role |-> Get(turn, "role", "user"),
     content |-> Get(turn, "content", ""),
     metadata |->
        [session_index |-> session_idx,
         session_date |-> session_date,
         has_answer |-> Get(turn, "has_answer", FALSE),
         conversation_id |-> conversation_id,
         turn_id |-> TurnId(conversation_id, session_idx,
                        Len(SelectSeq(messages,
                               LAMBDA m : m.metadata.session_index = session_idx)))]]

\* The message built for one turn, `messages` being the list built so far.
ConvertTurn(turn, session_idx, session_date, conversation_id, messages) ==
    [role |-> Get(turn, "role", "user"),
     content |-> Get(turn, "content", ""),
     metadata |->
        [session_index |-> session_idx,
         session_date |-> session_date,
         has_answer |-> Get(turn, "has_answer", FALSE),
         conversation_id |-> conversation_id,
         turn_id |-> TurnId(conversation_id, session_idx, Len(messages))]]

\* Mutant: each message is put in front of the list (messages.insert(0, ...)).
RECURSIVE ConvertSessionPrepends(_, _, _, _, _)
ConvertSessionPrepends(session, session_idx, session_date, conversation_id, messages) ==
    IF session = <<>>
    THEN messages
    ELSE ConvertSessionPrepends(Tail(session), session_idx, session_date, conversation_id,
            <<ConvertTurn(Head(session), session_idx, session_date,
                          conversation_id, messages)>> \o messages)

\* for turn in session: ... messages.append(message)
RECURSIVE ConvertSession(_, _, _, _, _)
ConvertSession(session, session_idx, session_date, conversation_id, messages) ==
    IF session = <<>>
    THEN messages
    ELSE ConvertSession(Tail(session), session_idx, session_date, conversation_id,
            Append(messages, ConvertTurn(Head(session), session_idx, session_date,
                                         conversation_id, messages)))

\* Mutant: the sessions are walked together with their dates
\* (zip(haystack_sessions, haystack_dates)), so a session without a date is
\* dropped.
RECURSIVE ConvertSessionsZipped(_, _, _, _, _)
ConvertSessionsZipped(haystack_sessions, haystack_dates, session_idx, conversation_id, messages) ==
    IF session_idx >= Len(haystack_sessions) \/ session_idx >= Len(haystack_dates)
    THEN messages
    ELSE ConvertSessionsZipped(haystack_sessions, haystack_dates, session_idx + 1,
                conversation_id,
                ConvertSession(haystack_sessions[session_idx + 1], session_idx,
                               haystack_dates[session_idx + 1], conversation_id,
                               messages))

\* for session_idx, session in enumerate(haystack_sessions): ...
RECURSIVE ConvertSessions(_, _, _, _, _)
ConvertSessions(haystack_sessions, haystack_dates, session_idx, conversation_id, messages) ==
    IF session_idx >= Len(haystack_sessions)
    THEN messages
    ELSE LET session_date == IF session_idx < Len(haystack_dates)
                             THEN haystack_dates[session_idx + 1]
                             ELSE ""
         IN ConvertSessions(haystack_sessions, haystack_dates, session_idx + 1,
                conversation_id,
                ConvertSession(haystack_sessions[session_idx + 1], session_idx,
                               session_date, conversation_id, messages))

ConvertMetadata(data, conversation_id) ==
    [conversation_id |-> conversation_id,
     question_id |-> Get(data, "question_id", ""),
     question_type |-> Get(data, "question_type", ""),
     question_date |-> Get(data, "question_date", ""),
     original_question |-> Get(data, "question", ""),
     ground_truth_answer |-> Get(data, "answer", ""),
     haystack_session_ids |-> Get(data, "haystack_session_ids", <<>>),
     answer_session_ids |-> Get(data, "answer_session_ids", <<>>),
     is_abstention |-> EndsWith(Get(data, "question_id", ""), "_abs")]

\* convert_conversation_to_mem0_format: (messages, metadata)
ConvertConversation(data, conversation_id) ==
    [messages |-> ConvertSessions(Get(data, "haystack_sessions", <<>>),
                                  Get(data, "haystack_dates", <<>>),
                                  0, conversation_id, <<>>),
     metadata |-> ConvertMetadata(data, conversation_id)]

question_type_mapping ==
    [t \in {"single-session-user", "single-session-assistant",
            "single-session-preference", "temporal-reasoning",
            "knowledge-update", "multi-session"} |->
        CASE t = "single-session-user" -> "single_session_user"
          [] t = "single-session-assistant" -> "single_session_assistant"
          [] t = "single-session-preference" -> "single_session_preference"
          [] t = "temporal-reasoning" -> "temporal_reasoning"
          [] t = "knowledge-update" -> "knowledge_update"
          [] t = "multi-session" -> "multi_session"]

NormalizeQuestionType(question_type) ==
    IF question_type \in DOMAIN question_type_mapping
    THEN question_type_mapping[question_type]
    ELSE question_type

GenerateUserId(conversation_id) == "longmemeval_" \o conversation_id

\* Mutant: the role of a turn is read as turn["role"].
TurnKeysSubscriptedRole == {"role"}

\* The keys of a record and of a turn that the converter reads by subscript
\* (record[key]); every read is a .get with a default.
RecordKeysSubscripted == {}
TurnKeysSubscripted == {}

\* The conversion of the record raises KeyError: a subscripted key is
\* missing from the record or from one of its turns.
ConvertRaises(data) ==
    LET sessions == Get(data, "haystack_sessions", <<>>)
    IN \/ \E key \in RecordKeysSubscripted : key \notin DOMAIN data
       \/ \E s \in 1..Len(sessions) :
             \E t \in 1..Len(sessions[s]) :
                 \E key \in TurnKeysSubscripted : key \notin DOMAIN sessions[s][t]

\* One iteration of convert_dataset's loop: the converted conversation of
\* the record at 0-based position idx.
ConvertDatasetEntry(conversation, idx) ==
    LET conversation_id == Get(conversation, "question_id",
                               "conversation_" \o ToString(idx))
        conv == ConvertConversation(conversation, conversation_id)
    IN [conversation_id |-> conversation_id,
        user_id |-> GenerateUserId(conversation_id),
        messages |-> conv.messages,
        metadata |-> conv.metadata,
        query |-> conv.metadata.original_question,
        ground_truth |-> conv.metadata.ground_truth_answer,
        question_type |-> NormalizeQuestionType(conv.metadata.question_type),
        is_abstention |-> conv.metadata.is_abstention]

(* ------------------------------------------------------------------ *)
(* Batch splitting (longmemeval/add.py, memzero/add.py)                *)
(* ------------------------------------------------------------------ *)
\* Mutant: the slice is one element too long (messages[i:i + batch_size + 1]).
BatchAtOverlaps(messages, i, bs) == Slice(messages, i, i + bs + 1)

\* messages[i:i + self.batch_size]
BatchAt(messages, i, bs) == Slice(messages, i, i + bs)

\* Mutant: the range stops one element early (range(0, len(messages) - 1, ...)).
RECURSIVE SplitFromStopsEarly(_, _, _)
SplitFromStopsEarly(messages, bs, i) ==
    IF i >= Len(messages) - 1
    THEN <<>>
    ELSE <<BatchAt(messages, i, bs)>> \o SplitFromStopsEarly(messages, bs, i + bs)

\* for i in range(0, len(messages), self.batch_size): message_batches.append(...)
RECURSIVE SplitFrom(_, _, _)
SplitFrom(messages, bs, i) ==
    IF i >= Len(messages)
    THEN <<>>
    ELSE <<BatchAt(messages, i, bs)>> \o SplitFrom(messages, bs, i + bs)

SplitBatches(messages, bs) == SplitFrom(messages, bs, 0)

\* LongMemEvalMemoryAdder._count_tokens
CountTokens(messages) ==
    SumSeq([i \in 1..Len(messages) |-> Len(Get(messages[i], "content", ""))])
        \div CharsPerToken

\* The coroutines add_conversation_async creates, in submission order.
AddConversationTasks(data, bs) ==
    LET message_batches == SplitBatches(data.messages, bs)
    IN [b \in 1..Len(message_batches) |->
            [user_id |-> data.user_id,
             messages |-> message_batches[b],
             batch_index |-> b - 1,
             total_batches |-> Len(message_batches)]]

\* MemoryADD._run_tasks: the key filter of `for key in conversation.keys()`
IsMetadataKey(key) ==
    \/ key \in {"speaker_a", "speaker_b"}
    \/ Contains(key, "date")
    \/ Contains(key, "timestamp")

\* msg_a (side "A") or msg_b (side "B") of one session
SpeakerMessages(chats, speaker_a, side) ==
    [i \in 1..Len(chats) |->
        LET content == chats[i].speaker \o ": " \o chats[i].text
            mine == IF side = "A"
                    THEN chats[i].speaker = speaker_a
                    ELSE chats[i].speaker # speaker_a
        IN [role |-> IF mine THEN "user" ELSE "assistant", content |-> content]]

\* tasks_data entries of one session key: the batches of msg_a, then of msg_b
SessionTasks(conversation, key, idx, bs) ==
    LET speaker_a == DictGet(conversation, "speaker_a", None)
        speaker_b == DictGet(conversation, "speaker_b", None)
        timestamp == DictGet(conversation, key \o "_date_time", None)
        chats == DictGet(conversation, key, <<>>)
        Side(side, uid) ==
            LET batches == SplitBatches(SpeakerMessages(chats, speaker_a, side), bs)
            IN [b \in 1..Len(batches) |->
                    [user_id |-> uid, messages |-> batches[b], timestamp |-> timestamp]]
    IN Side("A", speaker_a \o "_" \o ToString(idx))
       \o Side("B", speaker_b \o "_" \o ToString(idx))

\* for key in conversation.keys(): ... (keys from 0-based position k on)
RECURSIVE ConversationTasks(_, _, _, _)
ConversationTasks(conversation, k, idx, bs) ==
    IF k >= Len(conversation)
    THEN <<>>
    ELSE LET key == conversation[k + 1].key
         IN (IF IsMetadataKey(key) THEN <<>> ELSE SessionTasks(conversation, key, idx, bs))
            \o ConversationTasks(conversation, k + 1, idx, bs)

\* for idx, item in enumerate(self.data): ... (items from 0-based position idx on)
RECURSIVE RunTasksData(_, _, _)
RunTasksData(data, idx, bs) ==
    IF idx >= Len(data)
    THEN <<>>
    ELSE ConversationTasks(data[idx + 1].conversation, 0, idx, bs)
         \o RunTasksData(data, idx + 1, bs)

(* ------------------------------------------------------------------ *)
(* Inputs of the adders                                                *)
(* ------------------------------------------------------------------ *)
ContentPool == <<"hello there", "hi", "what is the plan for today?", "ok">>

PoolTurn(p) ==
    [role |-> IF p % 2 = 1 THEN "user" ELSE "assistant",
     content |-> ContentPool[((p - 1) % Len(ContentPool)) + 1],
     has_answer |-> (p % 2 = 0)]

\* A LongMemEval record with one session of n turns.
RawConversation(n) ==
    [question_id |-> "q1",
     question_type |-> "multi-session",
     question |-> "what is the plan?",
     answer |-> "a walk",
     haystack_dates |-> <<"2023/05/01">>,
     haystack_sessions |-> <<[p \in 1..n |-> PoolTurn(p)]>>]

\* conversation_data arguments of add_conversation_async: converted records
AddConversationInputs == {ConvertDatasetEntry(RawConversation(n), 0) : n \in 0..MaxMessages}

\* A memzero dataset item: two speakers and one session of one chat.
MzItem(c) ==
    [conversation |->
        <<[key |-> "speaker_a", value |-> "Ann"],
          [key |-> "speaker_b", value |-> "Bob"],
          [key |-> "session_1_date_time", value |-> "1 May 2023"],
          [key |-> "session_1",
           value |-> <<[speaker |-> IF c % 2 = 1 THEN "Ann" ELSE "Bob",
                        text |-> ContentPool[((c - 1) % Len(ContentPool)) + 1]]>>]>>]

RunTasksInputs == {[c \in 1..n |-> MzItem(c)] : n \in 1..MaxMzConversations}

(* ------------------------------------------------------------------ *)
(* The batch coroutine: _async_add_messages / _async_add_single        *)
(* ------------------------------------------------------------------ *)
\* What one POST /memories attempt can end in.
ResponseKinds == {"ok", "http_error", "connect_error", "timeout"}

\* Mutant: the gate admits one task too many.
SemAcquirableOffByOne(value) == value >= 0

\* `async with semaphore`: a permit is taken only while one is free.
SemAcquirable(value) == value > 0

\* The attempt raises: client.post raises on a connection error or timeout,
\* response.raise_for_status() raises on an HTTP error status.
Raises(kind) == kind \in {"http_error", "connect_error", "timeout"}

\* Mutant: only HTTP status errors are caught (`except httpx.HTTPStatusError`).
CaughtOnlyStatusErrors(kind) == kind \in {"http_error"}

\* `except Exception`: every one of these exceptions is an Exception.
Caught(kind) == kind \in {"http_error", "connect_error", "timeout"}

\* Mutant: the batch gives up one attempt early.
RetryRemainingShort(att, n_retries) == att < n_retries - 2

\* `if attempt < retries - 1`: sleep and try again
RetryRemaining(att, n_retries) == att < n_retries - 1

\* The result of a task that has not finished
NotReturned == [returned |-> FALSE]

\* No conversation has been handed to the adder.
NoInput == [given |-> FALSE]

\* Only _async_add_messages reads the clock, _async_add_single does not, and
\* no branch of either depends on a reading: the specifications that are not
\* about times keep the clock at 0.
ReadsClock(which) == timed /\ which = "longmemeval"

\* Seconds a POST /memories takes until its response or exception.
PostSeconds == 1

\* `await asyncio.sleep(2 * (attempt + 1))`
BackoffSeconds(att) == 2 * (att + 1)

\* `time_taken = time.time() - start_time` on success, 0 on failure
TimeTaken(success, now, started) == IF success THEN now - started ELSE 0

\* The value the coroutine returns.
TaskReturn(which, success, time_taken, messages) ==
    IF which = "longmemeval"
    THEN [success |-> success, time_taken |-> time_taken,
          token_count |-> CountTokens(messages)]
    ELSE [success |-> success]

Tasks == 1..Len(tasks_data)

InFlight == {t \in Tasks : tpc[t] = "post"}
Holders == {t \in Tasks : tpc[t] \in {"post", "sleep"}}

\* Mutant: the coroutine finishes without releasing its permit.
FinishKeepsPermit(t, result, kind) ==
    /\ tpc' = [tpc EXCEPT ![t] = "done"]
    /\ tresult' = [tresult EXCEPT ![t] = result]
    /\ final_response' = [final_response EXCEPT ![t] = kind]
    /\ sem_value' = sem_value
    /\ completed' = Append(completed, t)
    /\ end_time' = [end_time EXCEPT ![t] = clock']

\* The coroutine finishes: `async with` releases the permit and
\* as_completed queues the finished future.
Finish(t, result, kind) ==
    /\ tpc' = [tpc EXCEPT ![t] = "done"]
    /\ tresult' = [tresult EXCEPT ![t] = result]
    /\ final_response' = [final_response EXCEPT ![t] = kind]
    /\ sem_value' = sem_value + 1
    /\ completed' = Append(completed, t)
    /\ end_time' = [end_time EXCEPT ![t] = clock']

\* Mutant: a task enters the gate without taking a permit.
TaskAcquireTakesNoPermit(t) ==
    /\ apc = "await"
    /\ tpc[t] = "waiting"
    /\ SemAcquirable(sem_value)
    /\ sem_value' = sem_value
    /\ tpc' = [tpc EXCEPT ![t] = "post"]
    /\ attempt' = [attempt EXCEPT ![t] = 0]
    /\ posts' = [posts EXCEPT ![t] = posts[t] + 1]
    /\ start_time' = [start_time EXCEPT ![t] = clock]
    /\ UNCHANGED <<adder, timed, add_input, batch_size, max_concurrent, tasks_data,
                   tresult, final_response, got_ok, completed, awaited, apc, acc,
                   metrics, clock, end_time>>
    /\ UNCHANGED <<funVars, searchVars, scoreVars, msVars>>

\* A task enters `async with semaphore` and issues its first POST.
TaskAcquire(t) ==
    /\ apc = "await"
    /\ tpc[t] = "waiting"
    /\ SemAcquirable(sem_value)
    /\ sem_value' = sem_value - 1
    /\ tpc' = [tpc EXCEPT ![t] = "post"]
    /\ attempt' = [attempt EXCEPT ![t] = 0]
    /\ posts' = [posts EXCEPT ![t] = posts[t] + 1]
    /\ start_time' = [start_time EXCEPT ![t] = clock]
    /\ UNCHANGED <<adder, timed, add_input, batch_size, max_concurrent, tasks_data,
                   tresult, final_response, got_ok, completed, awaited, apc, acc,
                   metrics, clock, end_time>>
    /\ UNCHANGED <<funVars, searchVars, scoreVars, msVars>>

\* The POST in flight ends with `kind`.
PostResponds(t, kind) ==
    /\ apc = "await"
    /\ tpc[t] = "post"
    /\ clock' = IF ReadsClock(adder) THEN clock + PostSeconds ELSE clock
    /\ got_ok' = [got_ok EXCEPT ![t] = got_ok[t] \/ kind = "ok"]
    /\ IF ~Raises(kind)
       THEN /\ Finish(t, TaskReturn(adder, TRUE,
                                    TimeTaken(TRUE, clock', start_time[t]),
                                    tasks_data[t].messages), kind)
            /\ UNCHANGED <<attempt, posts>>
       ELSE IF ~Caught(kind)
       THEN /\ Finish(t, [raised |-> kind], kind)
            /\ UNCHANGED <<attempt, posts>>
       ELSE IF RetryRemaining(attempt[t], AddRetries)
       THEN /\ tpc' = [tpc EXCEPT ![t] = "sleep"]
            /\ UNCHANGED <<attempt, posts, tresult, final_response, sem_value,
                           completed, end_time>>
       ELSE /\ Finish(t, TaskReturn(adder, FALSE,
                                    TimeTaken(FALSE, clock', start_time[t]),
                                    tasks_data[t].messages), kind)
            /\ UNCHANGED <<attempt, posts>>
    /\ UNCHANGED <<adder, timed, add_input, batch_size, max_concurrent, tasks_data,
                   awaited, apc, acc, metrics, start_time>>
    /\ UNCHANGED <<funVars, searchVars, scoreVars, msVars>>

\* asyncio.sleep returns; `continue` starts the next attempt.
SleepEnds(t) ==
    /\ apc = "await"
    /\ tpc[t] = "sleep"
    /\ attempt' = [attempt EXCEPT ![t] = attempt[t] + 1]
    /\ posts' = [posts EXCEPT ![t] = posts[t] + 1]
    /\ tpc' = [tpc EXCEPT ![t] = "post"]
    /\ clock' = IF ReadsClock(adder) THEN clock + BackoffSeconds(attempt[t]) ELSE clock
    /\ UNCHANGED <<adder, timed, add_input, batch_size, max_concurrent, tasks_data,
                   sem_value, tresult, final_response, got_ok, completed, awaited,
                   apc, acc, metrics, start_time, end_time>>
    /\ UNCHANGED <<funVars, searchVars, scoreVars, msVars>>

(* ------------------------------------------------------------------ *)
(* The callers: add_conversation_async and _run_tasks                  *)
(* ------------------------------------------------------------------ *)
ZeroAcc ==
    [total_time |-> 0, total_tokens |-> 0, successful_batches |-> 0,
     failed_batches |-> 0]

\* Mutant: a failed batch is not counted.
AccumulateDropsFailed(a, result) ==
    IF result.success
    THEN [a EXCEPT !.total_time = a.total_time + result.time_taken,
                   !.total_tokens = a.total_tokens + result.token_count,
                   !.successful_batches = a.successful_batches + 1]
    ELSE a

\* Mutant: the tokens of a failed batch are counted too.
AccumulateCountsFailedTokens(a, result) ==
    IF result.success
    THEN [a EXCEPT !.total_time = a.total_time + result.time_taken,
                   !.total_tokens = a.total_tokens + result.token_count,
                   !.successful_batches = a.successful_batches + 1]
    ELSE [a EXCEPT !.total_tokens = a.total_tokens + result.token_count,
                   !.failed_batches = a.failed_batches + 1]

\* Mutant: total_tokens is assigned, not added to.
AccumulateLastTokens(a, result) ==
    IF result.success
    THEN [a EXCEPT !.total_time = a.total_time + result.time_taken,
                   !.total_tokens = result.token_count,
                   !.successful_batches = a.successful_batches + 1]
    ELSE [a EXCEPT !.failed_batches = a.failed_batches + 1]

\* The body of `for task in iterator` after `await task`.
Accumulate(a, result) ==
    IF result.success
    THEN [a EXCEPT !.total_time = a.total_time + result.time_taken,
                   !.total_tokens = a.total_tokens + result.token_count,
                   !.successful_batches = a.successful_batches + 1]
    ELSE [a EXCEPT !.failed_batches = a.failed_batches + 1]

\* The dictionary add_conversation_async returns.
AddMetrics(data, n_batches, a) ==
    [conversation_id |-> data.conversation_id,
     user_id |-> data.user_id,
     add_phase |->
        [total_time_ms |-> a.total_time * 1000,
         total_tokens |-> a.total_tokens,
         messages_count |-> Len(data.messages),
         batches_count |-> n_batches,
         successful_batches |-> a.successful_batches,
         failed_batches |-> a.failed_batches]]

\* The tasks are created and scheduled behind a new semaphore.
Launch(input, mc, tasks) ==
    /\ apc' = "await"
    /\ add_input' = input
    /\ max_concurrent' = mc
    /\ tasks_data' = tasks
    /\ sem_value' = mc
    /\ tpc' = [t \in 1..Len(tasks) |-> "waiting"]
    /\ attempt' = [t \in 1..Len(tasks) |-> 0]
    /\ posts' = [t \in 1..Len(tasks) |-> 0]
    /\ tresult' = [t \in 1..Len(tasks) |-> NotReturned]
    /\ final_response' = [t \in 1..Len(tasks) |-> None]
    /\ got_ok' = [t \in 1..Len(tasks) |-> FALSE]
    /\ completed' = <<>>
    /\ awaited' = 0
    /\ acc' = ZeroAcc
    /\ clock' = 0
    /\ start_time' = [t \in 1..Len(tasks) |-> 0]
    /\ end_time' = [t \in 1..Len(tasks) |-> 0]
    /\ UNCHANGED <<adder, timed, batch_size, metrics>>

\* add_conversation_async up to its `for task in iterator` loop
AddConversationAsync ==
    /\ adder = "longmemeval"
    /\ apc = "init"
    /\ \E data \in AddConversationInputs, mc \in 1..MaxConcurrent :
          Launch(data, mc, AddConversationTasks(data, batch_size))
    /\ UNCHANGED <<funVars, searchVars, scoreVars, msVars>>

\* _run_tasks up to its `for f in tqdm(asyncio.as_completed(tasks))` loop
RunTasks ==
    /\ adder = "memzero"
    /\ apc = "init"
    /\ \E data \in RunTasksInputs, mc \in 1..MaxConcurrent :
          Launch(data, mc, RunTasksData(data, 0, batch_size))
    /\ UNCHANGED <<funVars, searchVars, scoreVars, msVars>>

\* `success, time_taken, token_count = await task` and the loop body
AwaitBatch ==
    /\ adder = "longmemeval"
    /\ apc = "await"
    /\ completed # <<>>
    /\ LET result == tresult[Head(completed)]
       IN IF "raised" \in DOMAIN result
          THEN /\ apc' = "raised"
               /\ UNCHANGED acc
          ELSE /\ acc' = Accumulate(acc, result)
               /\ UNCHANGED apc
    /\ completed' = Tail(completed)
    /\ awaited' = awaited + 1
    /\ UNCHANGED <<adder, timed, add_input, batch_size, max_concurrent, tasks_data,
                   sem_value, tpc, attempt, posts, tresult, final_response, got_ok,
                   metrics, clock, start_time, end_time>>
    /\ UNCHANGED <<funVars, searchVars, scoreVars, msVars>>

\* `await f` of _run_tasks: the result is dropped
AwaitMemory ==
    /\ adder = "memzero"
    /\ apc = "await"
    /\ completed # <<>>
    /\ apc' = IF "raised" \in DOMAIN tresult[Head(completed)] THEN "raised" ELSE apc
    /\ completed' = Tail(completed)
    /\ awaited' = awaited + 1
    /\ UNCHANGED <<adder, timed, add_input, batch_size, max_concurrent, tasks_data,
                   sem_value, tpc, attempt, posts, tresult, final_response, got_ok,
                   acc, metrics, clock, start_time, end_time>>
    /\ UNCHANGED <<funVars, searchVars, scoreVars, msVars>>

\* The iterator is exhausted: add_conversation_async returns its metrics.
ReturnMetrics ==
    /\ adder = "longmemeval"
    /\ apc = "await"
    /\ awaited = Len(tasks_data)
    /\ apc' = "returned"
    /\ metrics' = AddMetrics(add_input, Len(tasks_data), acc)
    /\ UNCHANGED <<adder, timed, add_input, batch_size, max_concurrent, tasks_data,
                   sem_value, tpc, attempt, posts, tresult, final_response, got_ok,
                   completed, awaited, acc, clock, start_time, end_time>>
    /\ UNCHANGED <<funVars, searchVars, scoreVars, msVars>>

\* The iterator is exhausted: _run_tasks returns.
RunTasksReturn ==
    /\ adder = "memzero"
    /\ apc = "await"
    /\ awaited = Len(tasks_data)
    /\ apc' = "returned"
    /\ UNCHANGED <<adder, timed, add_input, batch_size, max_concurrent, tasks_data,
                   sem_value, tpc, attempt, posts, tresult, final_response, got_ok,
                   completed, awaited, acc, metrics, clock, start_time, end_time>>
    /\ UNCHANGED <<funVars, searchVars, scoreVars, msVars>>

AddIdle ==
    /\ adder = "idle"
    /\ add_input = NoInput
    /\ batch_size = 1
    /\ max_concurrent = 1
    /\ tasks_data = <<>>
    /\ sem_value = 0
    /\ tpc = <<>>
    /\ attempt = <<>>
    /\ posts = <<>>
    /\ tresult = <<>>
    /\ final_response = <<>>
    /\ got_ok = <<>>
    /\ completed = <<>>
    /\ awaited = 0
    /\ apc = "init"
    /\ acc = ZeroAcc
    /\ metrics = NotReturned
    /\ timed = FALSE
    /\ clock = 0
    /\ start_time = <<>>
    /\ end_time = <<>>

\* An adder constructed with its batch_size; nothing submitted yet.
AdderConstructed ==
    /\ adder \in {"longmemeval", "memzero"}
    /\ batch_size \in 1..MaxBatchSize
    /\ add_input = NoInput
    /\ max_concurrent = 1
    /\ tasks_data = <<>>
    /\ sem_value = 0
    /\ tpc = <<>>
    /\ attempt = <<>>
    /\ posts = <<>>
    /\ tresult = <<>>
    /\ final_response = <<>>
    /\ got_ok = <<>>
    /\ completed = <<>>
    /\ awaited = 0
    /\ apc = "init"
    /\ acc = ZeroAcc
    /\ metrics = NotReturned
    /\ clock = 0
    /\ start_time = <<>>
    /\ end_time = <<>>

AddInit == AdderConstructed /\ timed = FALSE

AddNext ==
    \/ AddConversationAsync
    \/ RunTasks
    \/ \E t \in Tasks : TaskAcquire(t)
    \/ \E t \in Tasks, kind \in ResponseKinds : PostResponds(t, kind)
    \/ \E t \in Tasks : SleepEnds(t)
    \/ AwaitBatch
    \/ AwaitMemory
    \/ ReturnMetrics
    \/ RunTasksReturn

\* run_longmemeval_evaluation has not been called
RunIdle ==
    /\ run_pc = "idle"
    /\ converted_data = <<>>
    /\ run_idx = 0
    /\ run_results = <<>>
    /\ run_outcomes = <<>>
    /\ intermediate_files = <<>>

ConvIdle ==
    /\ fpc = "idle"
    /\ conversation_data = None
    /\ conv_messages = <<>>
    /\ converted = None
    /\ split_in = <<>>
    /\ split_bs = 1
    /\ split_out = <<>>
    /\ mz_item = None
    /\ mz_tasks = <<>>

\* run_evaluation of run_mem0_evaluation.py has not been called
Mem0Idle ==
    /\ m0_pc = "idle"
    /\ m0_files = <<>>
    /\ m0_error = None

FunIdle == ConvIdle /\ RunIdle /\ Mem0Idle

ScoreIdle ==
    /\ eval_data = <<>>
    /\ max_workers = 1
    /\ wpc = <<>>
    /\ item_i = <<>>
    /\ local_results = <<>>
    /\ judge_calls = <<>>
    /\ done_futures = {}
    /\ merged = {}
    /\ mpc = "idle"
    /\ eval_results = <<>>
    /\ output_file = <<>>
    /\ scores = <<>>

\* The file at output_path before anything was written to it
NoFile == [exists |-> FALSE, written |-> <<>>, complete |-> FALSE]

\* No call of process_questions_parallel has been made
PqIdle ==
    /\ qa_list = <<>>
    /\ pq_workers = 0
    /\ pq_pc = <<>>
    /\ pq_retries = <<>>
    /\ pq_found = <<>>
    /\ pq_out = <<>>
    /\ pq_ops = <<>>
    /\ pq_finished = <<>>
    /\ qa_results = <<>>

MsIdle ==
    /\ is_graph = FALSE
    /\ ms_data = <<>>
    /\ ms_pc = "idle"
    /\ ms_idx = 0
    /\ ms_q = 0
    /\ ms_retries = 0
    /\ ms_found = <<>>
    /\ ms_results = <<>>
    /\ lock_holder = None
    /\ disk_file = NoFile
    /\ dump_i = 0
    /\ flushes = 0
    /\ last_flushed = NoFile
    /\ appended = FALSE
    /\ ms_error = None
    /\ answer_prompt = None
    /\ ms_call = "none"
    /\ ms_ops = <<>>
    /\ PqIdle

(* ------------------------------------------------------------------ *)
(* longmemeval/search.py and full_context.py                           *)
(* ------------------------------------------------------------------ *)
\* str.strip() for blanks
RECURSIVE LStrip(_)
LStrip(text) ==
    IF Len(text) > 0 /\ SubSeq(text, 1, 1) = " "
    THEN LStrip(SubSeq(text, 2, Len(text)))
    ELSE text

RECURSIVE RStrip(_)
RStrip(text) ==
    IF Len(text) > 0 /\ SubSeq(text, Len(text), Len(text)) = " "
    THEN RStrip(SubSeq(text, 1, Len(text) - 1))
    ELSE text

Strip(text) == LStrip(RStrip(text))

\* len(self.tokenizer.encode(text)).  The tiktoken encoding is outside the
\* repository; it is stood for by one token per started group of 4
\* characters.
TokenizerLen(text) == (Len(text) + 3) \div 4

\* round(score, 2), the score given in thousandths and returned in
\* hundredths (ties to even)
Round2(score) ==
    LET q == score \div 10
        r == score % 10
    IN IF r > 5 \/ (r = 5 /\ q % 2 = 1) THEN q + 1 ELSE q

\* The list comprehension after the retry loop of _search_memories.
ProcessMemories(results_data) ==
    [i \in 1..Len(results_data) |->
        [memory |-> results_data[i].memory,
         timestamp |-> Get(Get(results_data[i], "metadata", <<>>), "timestamp", ""),
         score |-> Round2(results_data[i].score)]]

\* It raises KeyError when an entry lacks "memory" or "score".
ProcessRaises(results_data) ==
    \E i \in 1..Len(results_data) :
        ~({"memory", "score"} \subseteq DOMAIN results_data[i])

\* json.dumps(memories, indent=2), reduced to the values it prints
RECURSIVE FormatMemories(_)
FormatMemories(mems) ==
    IF mems = <<>>
    THEN ""
    ELSE Head(mems).memory \o " " \o Head(mems).timestamp \o " "
         \o ToString(Head(mems).score) \o "; " \o FormatMemories(Tail(mems))

SearchSystemMessage ==
    "You are a helpful assistant that can answer questions based on conversation memories."

\* Template(ANSWER_PROMPT).render(memories=..., question=...), the fixed
\* text of the template cut to its last lines
RenderAnswerPrompt(formatted_memories, question) ==
    "Memories: " \o formatted_memories \o " Question: " \o question \o " Answer:"

\* input_tokens of _generate_response
EstimateInputTokens(system_message, prompt) ==
    TokenizerLen(system_message) + TokenizerLen(prompt)

\* getattr(response, 'usage', None) of a response without usage
NoUsage == [none |-> TRUE]

\* `if api_usage:`
UsagePresent(api_usage) == api_usage # NoUsage

\* Mutant: the local estimate is recorded also when the provider reports usage.
TokenCountsAlwaysEstimated(api_usage, input_tokens, output_tokens) ==
    [input_tokens |-> input_tokens,
     output_tokens |-> output_tokens,
     total_tokens |-> input_tokens + output_tokens,
     estimated_input_tokens |-> input_tokens,
     estimated_output_tokens |-> output_tokens]

\* The token_counts dictionary of _generate_response (and, with the same
\* code, of FullContextProcessor.generate_response).
TokenCounts(api_usage, input_tokens, output_tokens) ==
    [input_tokens |-> IF UsagePresent(api_usage)
                      THEN api_usage.prompt_tokens ELSE input_tokens,
     output_tokens |-> IF UsagePresent(api_usage)
                       THEN api_usage.completion_tokens ELSE output_tokens,
     total_tokens |-> IF UsagePresent(api_usage)
                      THEN api_usage.total_tokens ELSE input_tokens + output_tokens,
     estimated_input_tokens |-> input_tokens,
     estimated_output_tokens |-> output_tokens]

\* Mutant: a depth answers with the answer of the first depth when there is
\* one.
DepthResultReusesEarlier(top_k, s_time, r_time, mems, answer, token_counts) ==
    [top_k |-> top_k,
     search_time_ms |-> s_time,
     response_time_ms |-> r_time,
     total_time_ms |-> s_time + r_time,
     retrieved_memories_count |-> Len(mems),
     answer |-> IF search_results # <<>> THEN search_results[1].answer ELSE answer,
     retrieved_memories |-> mems,
     token_counts |-> token_counts]

\* The result dictionary of a depth that succeeded.
DepthResult(top_k, s_time, r_time, mems, answer, token_counts) ==
    [top_k |-> top_k,
     search_time_ms |-> s_time,
     response_time_ms |-> r_time,
     total_time_ms |-> s_time + r_time,
     retrieved_memories_count |-> Len(mems),
     answer |-> answer,
     retrieved_memories |-> mems,
     token_counts |-> token_counts]

\* The result dictionary of the `except Exception` branch.
\* Mutant: the error result keeps what the depth's retrieval returned.
ErrorResultKeepsRetrieval(top_k, e) ==
    [top_k |-> top_k,
     error |-> e,
     search_time_ms |-> search_time,
     response_time_ms |-> 0,
     total_time_ms |-> search_time,
     retrieved_memories_count |-> Len(memories),
     answer |-> "",
     retrieved_memories |-> memories,
     token_counts |-> <<>>]

ErrorResult(top_k, e) ==
    [top_k |-> top_k,
     error |-> e,
     search_time_ms |-> 0,
     response_time_ms |-> 0,
     total_time_ms |-> 0,
     retrieved_memories_count |-> 0,
     answer |-> "",
     retrieved_memories |-> <<>>,
     token_counts |-> <<>>]

\* Mutant: the failed depth is skipped without a result (`continue`).
RecordErrorSkips(results, top_k, e) == results

\* results.append(result) of the `except Exception` branch
RecordError(results, top_k, e) == Append(results, ErrorResult(top_k, e))

\* The record process_all_conversations appends for one question.
FullContextRecord(question, context, response, r_time, token_info) ==
    [question |-> question,
     context |-> SubSeq(context, 1, Min(100, Len(context))),
     response |-> response,
     response_time |-> r_time,
     input_tokens |-> token_info.input_tokens,
     output_tokens |-> token_info.output_tokens,
     total_tokens |-> token_info.total_tokens,
     estimated_input_tokens |-> token_info.estimated_input_tokens,
     estimated_output_tokens |-> token_info.estimated_output_tokens,
     context_length |-> Len(context),
     context_chars |-> Len(context)]

FullContextSystemMessage ==
    "You are a helpful assistant that can answer questions based on the provided complete conversation context."

\* Template(FULL_CONTEXT_PROMPT).render(CONTEXT=..., QUESTION=...)
RenderFullContextPrompt(context, question) ==
    "# Complete Conversation Context: " \o context \o " # Question: " \o question
        \o " # Short answer:"

(* ---- what the collaborators can answer ---- *)
DepthValues == {1, 5}
SearchQuery == "what does Ann like?"
QuestionPool == <<"what does Ann like?", "where does Bob live?", "who moved?", "when?">>
FullContext == "1 May 2023 | Ann: I like tea"

MemoryPool ==
    <<[memory |-> "Ann likes tea", metadata |-> [timestamp |-> "2023-05-01"], score |-> 873],
      [memory |-> "Bob moved to Oslo", score |-> 412]>>

\* The "results" of a successful /search response for top_k
SearchResponses(top_k) ==
    {SubSeq(MemoryPool, 1, n) : n \in 0..Min(top_k, Len(MemoryPool))}
    \cup {<<[text |-> "an entry without a memory key"]>>}

SearchFailures == {"http_error", "timeout"}
SearchTimes == {15}
ResponseTimes == {40}
AnswerContents == {" tea ", "Oslo"}
\* A response has no usage, or one of two usages: counts of the provider's
\* own tokenizer, or counts that agree with the tiktoken estimate of the
\* prompt without memories and a one-token answer.
UsageValues ==
    {NoUsage,
     [prompt_tokens |-> 120, completion_tokens |-> 3, total_tokens |-> 130],
     [prompt_tokens |-> 34, completion_tokens |-> 1, total_tokens |-> 35]}

(* ---- the per-depth loop of search_and_respond ---- *)
\* How the calls made for one depth ended: _search_memories returned the
\* results of a response or raised; _generate_response was not called,
\* returned the content, usage and time of a response, or raised.
SearchReturned(results_data, s_time) == [results |-> results_data, time |-> s_time]
GenerateReturned(content, usage, r_time) ==
    [content |-> content, usage |-> usage, time |-> r_time]
CallRaised(e) == [raises |-> e]
NotCalled == [called |-> FALSE]
DepthCall(search, generate) == [search |-> search, generate |-> generate]

\* The loop goes on with the next depth, or ends.
NextDepth ==
    /\ depth_i' = depth_i + 1
    /\ spc' = IF depth_i + 1 >= Len(top_k_values) THEN "done" ELSE "search"
    /\ retries' = 0
    /\ calls' = [search |-> 0, generate |-> 0]
    /\ memories' = <<>>
    /\ search_time' = 0

\* The `except Exception` branch of search_and_respond.
DepthFails(e, outcome) ==
    /\ search_results' = RecordError(search_results, top_k_values[depth_i + 1], e)
    /\ depth_outcomes' = Append(depth_outcomes, outcome)
    /\ provider_usage' = Append(provider_usage, NoUsage)
    /\ NextDepth

\* search_and_respond is called.
SearchAndRespond ==
    /\ searcher = "longmemeval"
    /\ spc = "init"
    /\ \E top_ks \in SeqsUpTo(DepthValues, MaxDepths) :
          /\ top_k_values' = top_ks
          /\ spc' = IF top_ks = <<>> THEN "done" ELSE "search"
    /\ depth_i' = 0
    /\ retries' = 0
    /\ calls' = [search |-> 0, generate |-> 0]
    /\ search_results' = <<>>
    /\ UNCHANGED <<searcher, fc_questions, memories, search_time, depth_outcomes,
                   provider_usage, depth_calls>>
    /\ UNCHANGED <<addVars, funVars, scoreVars, msVars>>

\* One pass of the retry loop of _search_memories ends with a response.
SearchSucceeds ==
    /\ spc = "search"
    /\ retries < SearchMaxRetries
    /\ \E results_data \in SearchResponses(top_k_values[depth_i + 1]),
          s_time \in SearchTimes :
          IF ProcessRaises(results_data)
          THEN /\ DepthFails("KeyError", "search_failed")
               /\ depth_calls' = Append(depth_calls,
                                        DepthCall(SearchReturned(results_data, s_time),
                                                  NotCalled))
               /\ UNCHANGED <<searcher, top_k_values, fc_questions>>
          ELSE /\ memories' = ProcessMemories(results_data)
               /\ search_time' = s_time
               /\ spc' = "generate"
               /\ retries' = 0
               /\ calls' = [calls EXCEPT !.search = calls.search + 1]
               /\ depth_calls' = Append(depth_calls,
                                        DepthCall(SearchReturned(results_data, s_time),
                                                  NotCalled))
               /\ UNCHANGED <<searcher, top_k_values, fc_questions, depth_i,
                              search_results, depth_outcomes, provider_usage>>
    /\ UNCHANGED <<addVars, funVars, scoreVars, msVars>>

\* One pass of the retry loop of _search_memories ends with an exception.
SearchFails ==
    /\ spc = "search"
    /\ retries < SearchMaxRetries
    /\ \E e \in SearchFailures :
          IF retries + 1 >= SearchMaxRetries
          THEN /\ DepthFails(e, "search_failed")
               /\ depth_calls' = Append(depth_calls, DepthCall(CallRaised(e), NotCalled))
               /\ UNCHANGED <<searcher, top_k_values, fc_questions>>
          ELSE /\ retries' = retries + 1
               /\ calls' = [calls EXCEPT !.search = calls.search + 1]
               /\ UNCHANGED <<searcher, spc, top_k_values, fc_questions, depth_i,
                              memories, search_time, search_results,
                              depth_outcomes, provider_usage, depth_calls>>
    /\ UNCHANGED <<addVars, funVars, scoreVars, msVars>>

\* One pass of the retry loop of _generate_response returns an answer.
GenerateSucceeds ==
    /\ searcher = "longmemeval"
    /\ spc = "generate"
    /\ retries <= SearchMaxRetries
    /\ \E content \in AnswerContents, usage \in UsageValues, r_time \in ResponseTimes :
          LET prompt == RenderAnswerPrompt(FormatMemories(memories), SearchQuery)
              input_tokens == EstimateInputTokens(SearchSystemMessage, prompt)
              answer == Strip(content)
              output_tokens == TokenizerLen(answer)
              token_counts == TokenCounts(usage, input_tokens, output_tokens)
          IN /\ search_results' =
                    Append(search_results,
                           DepthResult(top_k_values[depth_i + 1], search_time, r_time,
                                       memories, answer, token_counts))
             /\ provider_usage' = Append(provider_usage, usage)
             /\ depth_calls' = [depth_calls EXCEPT ![Len(depth_calls)].generate =
                                    GenerateReturned(content, usage, r_time)]
    /\ depth_outcomes' = Append(depth_outcomes, "ok")
    /\ NextDepth
    /\ UNCHANGED <<searcher, top_k_values, fc_questions>>
    /\ UNCHANGED <<addVars, funVars, scoreVars, msVars>>

\* One pass of the retry loop of _generate_response ends with an exception.
GenerateFails ==
    /\ searcher = "longmemeval"
    /\ spc = "generate"
    /\ retries <= SearchMaxRetries
    /\ IF retries + 1 > SearchMaxRetries
       THEN /\ DepthFails("generation error", "generate_failed")
            /\ depth_calls' = [depth_calls EXCEPT ![Len(depth_calls)].generate =
                                   CallRaised("generation error")]
            /\ UNCHANGED <<searcher, top_k_values, fc_questions>>
       ELSE /\ retries' = retries + 1
            /\ calls' = [calls EXCEPT !.generate = calls.generate + 1]
            /\ UNCHANGED <<searcher, spc, top_k_values, fc_questions, depth_i,
                           memories, search_time, search_results, depth_outcomes,
                           provider_usage, depth_calls>>
    /\ UNCHANGED <<addVars, funVars, scoreVars, msVars>>

(* ---- FullContextProcessor: the question loop ---- *)
\* process_all_conversations reaches the questions of a conversation.
FullContextStart ==
    /\ searcher = "full_context"
    /\ spc = "init"
    /\ \E n \in 0..MaxDepths :
          /\ fc_questions' = SubSeq(QuestionPool, 1, n)
          /\ spc' = IF n = 0 THEN "done" ELSE "generate"
    /\ depth_i' = 0
    /\ retries' = 0
    /\ calls' = [search |-> 0, generate |-> 0]
    /\ search_results' = <<>>
    /\ UNCHANGED <<searcher, top_k_values, memories, search_time, depth_outcomes,
                   provider_usage, depth_calls>>
    /\ UNCHANGED <<addVars, funVars, scoreVars, msVars>>

\* generate_response returns; the record of the question is appended.
FullContextAnswers ==
    /\ searcher = "full_context"
    /\ spc = "generate"
    /\ retries <= SearchMaxRetries
    /\ \E content \in AnswerContents, usage \in UsageValues, r_time \in ResponseTimes :
          LET question == fc_questions[depth_i + 1]
              prompt == RenderFullContextPrompt(FullContext, question)
              input_tokens == EstimateInputTokens(FullContextSystemMessage, prompt)
              output_content == Strip(content)
              output_tokens == TokenizerLen(output_content)
              token_info == TokenCounts(usage, input_tokens, output_tokens)
          IN /\ search_results' =
                    Append(search_results,
                           FullContextRecord(question, FullContext, output_content,
                                             r_time, token_info))
             /\ provider_usage' = Append(provider_usage, usage)
    /\ depth_outcomes' = Append(depth_outcomes, "ok")
    /\ depth_i' = depth_i + 1
    /\ spc' = IF depth_i + 1 >= Len(fc_questions) THEN "done" ELSE "generate"
    /\ retries' = 0
    /\ calls' = [search |-> 0, generate |-> 0]
    /\ UNCHANGED <<searcher, top_k_values, fc_questions, memories, search_time,
                   depth_calls>>
    /\ UNCHANGED <<addVars, funVars, scoreVars, msVars>>

\* A call of generate_response fails: retried, or raised to the caller.
FullContextFails ==
    /\ searcher = "full_context"
    /\ spc = "generate"
    /\ retries <= SearchMaxRetries
    /\ retries' = retries + 1
    /\ calls' = [calls EXCEPT !.generate = calls.generate + 1]
    /\ spc' = IF retries + 1 > SearchMaxRetries THEN "raised" ELSE spc
    /\ UNCHANGED <<searcher, top_k_values, fc_questions, depth_i, memories,
                   search_time, search_results, depth_outcomes, provider_usage,
                   depth_calls>>
    /\ UNCHANGED <<addVars, funVars, scoreVars, msVars>>

SearchIdle ==
    /\ searcher = "idle"
    /\ spc = "init"
    /\ top_k_values = <<>>
    /\ fc_questions = <<>>
    /\ depth_i = 0
    /\ retries = 0
    /\ calls = [search |-> 0, generate |-> 0]
    /\ memories = <<>>
    /\ search_time = 0
    /\ search_results = <<>>
    /\ depth_outcomes = <<>>
    /\ provider_usage = <<>>
    /\ depth_calls = <<>>

\* A searcher constructed; no method called yet.
SearcherConstructed ==
    /\ searcher \in {"longmemeval", "full_context"}
    /\ spc = "init"
    /\ top_k_values = <<>>
    /\ fc_questions = <<>>
    /\ depth_i = 0
    /\ retries = 0
    /\ calls = [search |-> 0, generate |-> 0]
    /\ memories = <<>>
    /\ search_time = 0
    /\ search_results = <<>>
    /\ depth_outcomes = <<>>
    /\ provider_usage = <<>>
    /\ depth_calls = <<>>

InitSearch ==
    /\ SearcherConstructed
    /\ AddIdle
    /\ FunIdle
    /\ ScoreIdle
    /\ MsIdle

SearchNext ==
    \/ SearchAndRespond
    \/ SearchSucceeds
    \/ SearchFails
    \/ GenerateSucceeds
    \/ GenerateFails
    \/ FullContextStart
    \/ FullContextAnswers
    \/ FullContextFails

SpecSearch == InitSearch /\ [][SearchNext]_vars

(* ------------------------------------------------------------------ *)
(* The converter and the batch splitting applied to bounded inputs     *)
(* ------------------------------------------------------------------ *)
TurnValues ==
    {[role |-> "user", content |-> "hello there", has_answer |-> FALSE],
     [role |-> "assistant", content |-> "hi", has_answer |-> TRUE]}

LongMemEvalRecord(sessions) ==
    [question_id |-> "q1",
     haystack_dates |-> <<"2023/05/01">>,
     haystack_sessions |-> sessions]

\* The example of the specification: two sessions of 3 and 5 turns.
ExampleSessions == <<[p \in 1..3 |-> PoolTurn(p)], [p \in 1..5 |-> PoolTurn(p + 3)]>>

ConverterInputs ==
    {LongMemEvalRecord(ss) : ss \in SeqsUpTo(SeqsUpTo(TurnValues, MaxTurns), MaxSessions)}
    \cup {LongMemEvalRecord(ExampleSessions)}

MessageValues ==
    {[role |-> "user", content |-> "hello there"],
     [role |-> "assistant", content |-> "hi"]}

SplitInputs == SeqsUpTo(MessageValues, MaxMessages + 1)

ChatValues ==
    {[speaker |-> "Ann", text |-> "hi"], [speaker |-> "Bob", text |-> "hello there"]}

\* A memzero item: the speakers, then for each session its date key and its
\* chat list.
RECURSIVE SessionEntries(_, _)
SessionEntries(sessions, s) ==
    IF s > Len(sessions)
    THEN <<>>
    ELSE <<[key |-> "session_" \o ToString(s) \o "_date_time", value |-> "1 May 2023"],
           [key |-> "session_" \o ToString(s), value |-> sessions[s]]>>
         \o SessionEntries(sessions, s + 1)

MemzeroItem(sessions) ==
    [conversation |->
        <<[key |-> "speaker_a", value |-> "Ann"],
          [key |-> "speaker_b", value |-> "Bob"]>> \o SessionEntries(sessions, 1)]

ExampleChats ==
    <<[p \in 1..3 |-> [speaker |-> IF p % 2 = 1 THEN "Ann" ELSE "Bob", text |-> "hi"]],
      [p \in 1..5 |-> [speaker |-> IF p % 2 = 1 THEN "Bob" ELSE "Ann", text |-> "ok"]]>>

MemzeroInputs ==
    {MemzeroItem(ss) : ss \in SeqsUpTo(SeqsUpTo(ChatValues, MaxTurns), MaxSessions)}
    \cup {MemzeroItem(ExampleChats)}

\* convert_dataset converts one record.
ConvertRecord ==
    /\ fpc = "start"
    /\ \E data \in ConverterInputs :
          /\ conversation_data' = data
          /\ conv_messages' = ConvertDatasetEntry(data, 0).messages
    /\ fpc' = "converted"
    /\ UNCHANGED <<converted, split_in, split_bs, split_out, mz_item, mz_tasks>>
    /\ UNCHANGED <<addVars, searchVars, scoreVars, msVars, runVars, mem0Vars>>

\* Turns and records that lack optional keys; the last two records have no
\* session list.
SparseTurns ==
    {[content |-> "hi"], [role |-> "assistant"], [has_answer |-> TRUE]}

SparseRecords ==
    {[haystack_sessions |-> <<s>>] : s \in SeqsUpTo(SparseTurns, MaxTurns)}
    \cup {[haystack_sessions |-> <<s, s>>, haystack_dates |-> <<"2023/05/01">>,
           question_id |-> "q1_abs", question_type |-> "multi-session"] :
              s \in SeqsUpTo(SparseTurns, 1)}
    \cup {[question_id |-> "q2", question |-> "what tea?", answer |-> "green"],
          [haystack_dates |-> <<"2023/05/01">>]}

\* convert_dataset converts a record that lacks keys: the conversion raises
\* KeyError, or the converted conversation is appended.
ConvertSparseRecord ==
    /\ fpc = "start"
    /\ \E data \in SparseRecords :
          /\ conversation_data' = data
          /\ IF ConvertRaises(data)
             THEN /\ fpc' = "convert_raised"
                  /\ UNCHANGED <<conv_messages, converted>>
             ELSE /\ fpc' = "sparse_converted"
                  /\ converted' = ConvertDatasetEntry(data, 0)
                  /\ conv_messages' = ConvertDatasetEntry(data, 0).messages
    /\ UNCHANGED <<split_in, split_bs, split_out, mz_item, mz_tasks>>
    /\ UNCHANGED <<addVars, searchVars, scoreVars, msVars, runVars, mem0Vars>>

\* add_conversation_async splits the messages of the converted record.
SplitConverted ==
    /\ fpc = "converted"
    /\ \E bs \in 1..(MaxBatchSize + 1) :
          /\ split_bs' = bs
          /\ split_out' = SplitBatches(conv_messages, bs)
    /\ fpc' = "conv_split"
    /\ split_in' = conv_messages
    /\ UNCHANGED <<conversation_data, conv_messages, converted, mz_item, mz_tasks>>
    /\ UNCHANGED <<addVars, searchVars, scoreVars, msVars, runVars, mem0Vars>>

\* add_conversation_async splits an arbitrary message list.
SplitMessages ==
    /\ fpc = "start"
    /\ \E messages \in SplitInputs, bs \in 1..(MaxBatchSize + 1) :
          /\ split_in' = messages
          /\ split_bs' = bs
          /\ split_out' = SplitBatches(messages, bs)
    /\ fpc' = "split"
    /\ UNCHANGED <<conversation_data, conv_messages, converted, mz_item, mz_tasks>>
    /\ UNCHANGED <<addVars, searchVars, scoreVars, msVars, runVars, mem0Vars>>

\* _run_tasks builds tasks_data for a dataset of one item.
SplitMemzeroItem ==
    /\ fpc = "start"
    /\ \E item \in MemzeroInputs, bs \in 1..(MaxBatchSize + 1) :
          /\ mz_item' = item
          /\ split_bs' = bs
          /\ mz_tasks' = RunTasksData(<<item>>, 0, bs)
    /\ fpc' = "mz_split"
    /\ UNCHANGED <<conversation_data, conv_messages, converted, split_in, split_out>>
    /\ UNCHANGED <<addVars, searchVars, scoreVars, msVars, runVars, mem0Vars>>

FunNext ==
    \/ ConvertRecord
    \/ ConvertSparseRecord
    \/ SplitConverted
    \/ SplitMessages
    \/ SplitMemzeroItem

InitFun ==
    /\ fpc = "start"
    /\ conversation_data = None
    /\ conv_messages = <<>>
    /\ converted = None
    /\ split_in = <<>>
    /\ split_bs = 1
    /\ split_out = <<>>
    /\ mz_item = None
    /\ mz_tasks = <<>>
    /\ RunIdle
    /\ Mem0Idle
    /\ AddIdle
    /\ SearchIdle
    /\ ScoreIdle
    /\ MsIdle

SpecFun == InitFun /\ [][FunNext]_vars

(* ------------------------------------------------------------------ *)
(* evals.py and generate_scores.py: the scoring stage                 *)
(* ------------------------------------------------------------------ *)
MaxKeys == 2
MaxItems == 2
MaxWorkers == 2

CATEGORY_MAPPING ==
    [c \in {"1", "2", "3", "4", "5"} |->
        CASE c = "1" -> "multi-hop"
          [] c = "2" -> "temporal"
          [] c = "3" -> "open-domain"
          [] c = "4" -> "single-hop"
          [] c = "5" -> "adversarial"]

\* CATEGORY_MAPPING.get(category, f"category_{category}")
CategoryName(category) == Get(CATEGORY_MAPPING, category, "category_" \o category)

\* str(item["category"]): the dataset gives the category as a number
Str(n) == ToString(n)

\* Mutant: the adversarial records are scored like the others.
SkipsItemNever(category) == FALSE

\* `if category == "5": continue`
SkipsItem(category) == category = "5"

\* calculate_metrics(pred, gt)["f1"] and calculate_bleu_scores(pred, gt)["bleu1"]
\* (metrics/utils.py): deterministic functions of the two normalized texts,
\* here 1 for equal texts and 0 otherwise.
CalculateF1(pred_answer, gt_answer) == IF pred_answer = gt_answer THEN 1 ELSE 0
CalculateBleu1(pred_answer, gt_answer) == IF pred_answer = gt_answer THEN 1 ELSE 0

\* evaluate_llm_judge(question, gt_answer, pred_answer) (metrics/llm_judge.py):
\* the external judge returns a score, or the call fails.
JudgeFailure == [raises |-> "JudgeFailure"]
JudgeOutcomes == {[score |-> 0], [score |-> 1], JudgeFailure}

\* The dictionary process_item appends for one scored item.
ScoredRecord(item, llm_score) ==
    [question |-> item.question,
     answer |-> item.answer,
     response |-> item.response,
     category |-> Str(item.category),
     category_name |-> CategoryName(Str(item.category)),
     bleu_score |-> CalculateBleu1(item.response, item.answer),
     f1_score |-> CalculateF1(item.response, item.answer),
     llm_score |-> llm_score]

\* d[key].append(item) on a defaultdict(list)
DictAppend(d, key, item) ==
    IF DictHas(d, key)
    THEN [i \in 1..Len(d) |->
            IF d[i].key = key THEN [d[i] EXCEPT !.value = Append(@, item)] ELSE d[i]]
    ELSE Append(d, [key |-> key, value |-> <<item>>])

\* d[key].extend(items) on a defaultdict(list)
DictExtend(d, key, items) ==
    IF DictHas(d, key)
    THEN [i \in 1..Len(d) |->
            IF d[i].key = key THEN [d[i] EXCEPT !.value = @ \o items] ELSE d[i]]
    ELSE Append(d, [key |-> key, value |-> items])

\* Mutant: the merge assigns the worker's mapping instead of extending the
\* shared one (`results = local_results`).
MergeLocalResultsAssigns(shared, local) == local

\* for k, items in local_results.items(): results[k].extend(items)
RECURSIVE MergeLocalResults(_, _)
MergeLocalResults(shared, local) ==
    IF local = <<>>
    THEN shared
    ELSE MergeLocalResults(DictExtend(shared, Head(local).key, Head(local).value),
                           Tail(local))

\* for key in data: all_items.extend(data[key])
AllItems(data) == Flatten([i \in 1..Len(data) |-> data[i].value])

RECURSIVE SumField(_, _)
SumField(items, field) ==
    IF items = <<>> THEN 0 ELSE Head(items)[field] + SumField(Tail(items), field)

\* mean().round(4) of a column, in ten-thousandths
Mean4(items, field) ==
    (2 * 10000 * SumField(items, field) + Len(items)) \div (2 * Len(items))

MeanScores(items) ==
    [bleu_score |-> Mean4(items, "bleu_score"),
     f1_score |-> Mean4(items, "f1_score"),
     llm_score |-> Mean4(items, "llm_score")]

\* The rows of df whose category_name is name
RowsOf(all_items, name) == SelectSeq(all_items, LAMBDA r : r.category_name = name)

\* df.groupby("category_name").agg(...).round(4) with the count column
CategoryResult(all_items) ==
    [name \in {all_items[i].category_name : i \in 1..Len(all_items)} |->
        [bleu_score |-> Mean4(RowsOf(all_items, name), "bleu_score"),
         f1_score |-> Mean4(RowsOf(all_items, name), "f1_score"),
         llm_score |-> Mean4(RowsOf(all_items, name), "llm_score"),
         count |-> Len(RowsOf(all_items, name))]]

(* ---- the input file ---- *)
\* The categories of the questions of conversation k, in file order
CategoryPool(k) ==
    CASE k % 3 = 0 -> <<1, 5, 2, 4>>
      [] k % 3 = 1 -> <<5, 7, 1, 5>>
      [] OTHER -> <<2, 1, 5, 3>>

\* A search result as the search stage stores it (the keys process_item reads)
SearchItem(k, p) ==
    [question |-> "q" \o ToString(k) \o "-" \o ToString(p),
     answer |-> "tea",
     response |-> IF (k + p) % 2 = 0 THEN "tea" ELSE "coffee",
     category |-> CategoryPool(k)[p + 1]]

\* The loaded file for conversations 0..Len(lens)-1 with lens[k+1] questions
EvalData(lens) ==
    [k1 \in 1..Len(lens) |->
        [key |-> ToString(k1 - 1),
         value |-> [p1 \in 1..lens[k1] |-> SearchItem(k1 - 1, p1 - 1)]]]

EvalInputs == {EvalData(lens) : lens \in SeqsUpTo(0..MaxItems, MaxKeys)}

Futures == 1..Len(eval_data)

(* ---- main of evals.py ---- *)
\* main loads the file and submits one process_item call per entry.
EvalsMain ==
    /\ mpc = "init"
    /\ \E data \in EvalInputs, workers \in 1..MaxWorkers :
          /\ eval_data' = data
          /\ max_workers' = workers
          /\ wpc' = [f \in 1..Len(data) |-> "pending"]
          /\ item_i' = [f \in 1..Len(data) |-> 0]
          /\ local_results' = [f \in 1..Len(data) |-> <<>>]
          /\ judge_calls' = [f \in 1..Len(data) |->
                                [p1 \in 1..Len(data[f].value) |-> 0]]
    /\ done_futures' = {}
    /\ merged' = {}
    /\ mpc' = "merge"
    /\ eval_results' = <<>>
    /\ UNCHANGED <<output_file, scores>>
    /\ UNCHANGED <<addVars, funVars, searchVars, msVars>>

\* A free worker thread takes the oldest queued call.
WorkerStarts(f) ==
    /\ mpc # "init"
    /\ wpc[f] = "pending"
    /\ \A g \in Futures : g < f => wpc[g] # "pending"
    /\ Cardinality({g \in Futures : wpc[g] = "running"}) < max_workers
    /\ wpc' = [wpc EXCEPT ![f] = "running"]
    /\ UNCHANGED <<eval_data, max_workers, item_i, local_results, judge_calls,
                   done_futures, merged, mpc, eval_results, output_file, scores>>
    /\ UNCHANGED <<addVars, funVars, searchVars, msVars>>

\* One pass of the loop of process_item.
ProcessItemStep(f) ==
    /\ wpc[f] = "running"
    /\ item_i[f] < Len(eval_data[f].value)
    /\ LET item == eval_data[f].value[item_i[f] + 1]
       IN IF SkipsItem(Str(item.category))
          THEN /\ item_i' = [item_i EXCEPT ![f] = @ + 1]
               /\ UNCHANGED <<wpc, local_results, judge_calls, done_futures>>
          ELSE /\ judge_calls' = [judge_calls EXCEPT ![f][item_i[f] + 1] = @ + 1]
               /\ \E judged \in JudgeOutcomes :
                     IF judged = JudgeFailure
                     THEN \* the exception leaves process_item: the future fails
                          /\ wpc' = [wpc EXCEPT ![f] = "raised"]
                          /\ done_futures' = done_futures \cup {f}
                          /\ UNCHANGED <<item_i, local_results>>
                     ELSE /\ local_results' =
                                [local_results EXCEPT
                                    ![f] = DictAppend(@, eval_data[f].key,
                                                      ScoredRecord(item, judged.score))]
                          /\ item_i' = [item_i EXCEPT ![f] = @ + 1]
                          /\ UNCHANGED <<wpc, done_futures>>
    /\ UNCHANGED <<eval_data, max_workers, merged, mpc, eval_results, output_file,
                   scores>>
    /\ UNCHANGED <<addVars, funVars, searchVars, msVars>>

\* process_item returns local_results.
ProcessItemReturns(f) ==
    /\ wpc[f] = "running"
    /\ item_i[f] = Len(eval_data[f].value)
    /\ wpc' = [wpc EXCEPT ![f] = "done"]
    /\ done_futures' = done_futures \cup {f}
    /\ UNCHANGED <<eval_data, max_workers, item_i, local_results, judge_calls,
                   merged, mpc, eval_results, output_file, scores>>
    /\ UNCHANGED <<addVars, funVars, searchVars, msVars>>

\* One pass of the as_completed loop: future.result(), then the merge under
\* results_lock (only the main thread takes that lock).
MergeFuture ==
    /\ mpc = "merge"
    /\ \E f \in done_futures \ merged :
          /\ merged' = merged \cup {f}
          /\ IF wpc[f] = "raised"
             THEN /\ mpc' = "raised"
                  /\ UNCHANGED eval_results
             ELSE /\ eval_results' = MergeLocalResults(eval_results, local_results[f])
                  /\ UNCHANGED mpc
    /\ UNCHANGED <<eval_data, max_workers, wpc, item_i, local_results, judge_calls,
                   done_futures, output_file, scores>>
    /\ UNCHANGED <<addVars, funVars, searchVars, msVars>>

\* json.dump(results, f) after the loop
SaveResults ==
    /\ mpc = "merge"
    /\ merged = Futures
    /\ output_file' = eval_results
    /\ mpc' = "saved"
    /\ UNCHANGED <<eval_data, max_workers, wpc, item_i, local_results, judge_calls,
                   done_futures, merged, eval_results, scores>>
    /\ UNCHANGED <<addVars, funVars, searchVars, msVars>>

\* generate_scores reads the saved file; with no row at all df has no
\* "category" column and df["category"] raises KeyError.
GenerateScores ==
    /\ mpc = "saved"
    /\ LET all_items == AllItems(output_file)
       IN IF all_items = <<>>
          THEN /\ mpc' = "scores_raised"
               /\ UNCHANGED scores
          ELSE /\ mpc' = "scored"
               /\ scores' = [category_result |-> CategoryResult(all_items),
                             overall_means |-> MeanScores(all_items)]
    /\ UNCHANGED <<eval_data, max_workers, wpc, item_i, local_results, judge_calls,
                   done_futures, merged, eval_results, output_file>>
    /\ UNCHANGED <<addVars, funVars, searchVars, msVars>>

InitScore ==
    /\ eval_data = <<>>
    /\ max_workers = 1
    /\ wpc = <<>>
    /\ item_i = <<>>
    /\ local_results = <<>>
    /\ judge_calls = <<>>
    /\ done_futures = {}
    /\ merged = {}
    /\ mpc = "init"
    /\ eval_results = <<>>
    /\ output_file = <<>>
    /\ scores = <<>>
    /\ AddIdle
    /\ FunIdle
    /\ SearchIdle
    /\ MsIdle

ScoreNext ==
    \/ EvalsMain
    \/ \E f \in Futures : WorkerStarts(f)
    \/ \E f \in Futures : ProcessItemStep(f)
    \/ \E f \in Futures : ProcessItemReturns(f)
    \/ MergeFuture
    \/ SaveResults
    \/ GenerateScores

SpecScore == InitScore /\ [][ScoreNext]_vars

(* ------------------------------------------------------------------ *)
(* memzero/search.py: MemorySearch, the two-speaker searcher and the   *)
(* mapping it accumulates and saves                                    *)
(* ------------------------------------------------------------------ *)
MaxMsConversations == 2
MaxQuestions == 2

\* max_retries of search_memory
MsMaxRetries == 3

\* The JSON body search_memory posts to /search
SearchRequest(user_id, query) ==
    IF is_graph
    THEN [query |-> query, user_id |-> user_id, top_k |-> 10,
          filter_memories |-> FALSE, enable_graph |-> TRUE, output_format |-> "v1.1"]
    ELSE [query |-> query, user_id |-> user_id, top_k |-> 10,
          filter_memories |-> FALSE]

\* response.json() of a successful /search call: relations come only with
\* a graph request
SearchResponse(request) ==
    IF "enable_graph" \in DOMAIN request
    THEN [results |-> <<[memory |-> request.user_id \o " likes tea",
                        metadata |-> [timestamp |-> "2023-05-01"],
                        score |-> 873]>>,
          relations |-> <<[source |-> request.user_id, relationship |-> "likes",
                          target |-> "tea"]>>]
    ELSE [results |-> <<[memory |-> request.user_id \o " likes tea",
                        metadata |-> [timestamp |-> "2023-05-01"],
                        score |-> 873]>>]

\* What search_memory returns after the retry loop
SearchMemoryResult(response, elapsed) ==
    [semantic_memories |-> ProcessMemories(Get(response, "results", <<>>)),
     graph_memories |->
        IF is_graph
        THEN LET relations == Get(response, "relations", <<>>)
             IN [i \in 1..Len(relations) |->
                    [source |-> relations[i].source,
                     relationship |-> relations[i].relationship,
                     target |-> relations[i].target]]
        ELSE None,
     time |-> elapsed]

\* The result dictionary of process_question
QuestionResult(val, found, response, response_time) ==
    [question |-> Get(val, "question", ""),
     answer |-> Get(val, "answer", ""),
     category |-> Get(val, "category", -1),
     evidence |-> Get(val, "evidence", <<>>),
     response |-> response,
     adversarial_answer |-> Get(val, "adversarial_answer", ""),
     speaker_1_memories |-> found[1].semantic_memories,
     speaker_2_memories |-> found[2].semantic_memories,
     num_speaker_1_memories |-> Len(found[1].semantic_memories),
     num_speaker_2_memories |-> Len(found[2].semantic_memories),
     speaker_1_memory_time |-> found[1].time,
     speaker_2_memory_time |-> found[2].time,
     speaker_1_graph_memories |-> found[1].graph_memories,
     speaker_2_graph_memories |-> found[2].graph_memories,
     response_time |-> response_time]

\* json.dump(self.results, ...): the entries in insertion order, the
\* integer keys written as strings
Serialize(mapping) ==
    [i \in 1..Len(mapping) |->
        [key |-> ToString(mapping[i].key), value |-> mapping[i].value]]

\* Mutant: the file is opened in append mode and keeps what it held.
OpenForAppend(file) == [exists |-> TRUE, written |-> file.written, complete |-> FALSE]

\* open(self.output_path, "w"): the file is created or truncated
OpenForWrite(file) == [exists |-> TRUE, written |-> <<>>, complete |-> FALSE]

(* ---- the dataset ---- *)
\* The qa entries of conversation idx; an adversarial entry has an
\* adversarial_answer and no answer
QaPool(idx) ==
    <<[question |-> "q" \o ToString(idx) \o "-0", answer |-> "tea", category |-> 1,
       evidence |-> <<"D1:3">>],
      [question |-> "q" \o ToString(idx) \o "-1", adversarial_answer |-> "coffee",
       category |-> 5, evidence |-> <<"D2:1">>],
      [question |-> "q" \o ToString(idx) \o "-2", answer |-> "Oslo", category |-> 2],
      [question |-> "q" \o ToString(idx) \o "-3", answer |-> "2022", category |-> 4,
       evidence |-> <<>>]>>

DataItem(idx, n) ==
    [qa |-> SubSeq(QaPool(idx), 1, n),
     conversation |-> [speaker_a |-> "Ann", speaker_b |-> "Bob"]]

MsData(lens) == [i \in 1..Len(lens) |-> DataItem(i - 1, lens[i])]

MsInputs == {MsData(lens) : lens \in SeqsUpTo(0..MaxQuestions, MaxMsConversations)}

MsFailures == {"HTTPError", "Timeout"}

\* f"{conversation['speaker_a']}_{idx}" and f"{conversation['speaker_b']}_{idx}"
SpeakerUserId(speaker, idx) == speaker \o "_" \o ToString(idx)

\* The qa list of the conversation the loop is at
CurrentQa == ms_data[ms_idx + 1].qa

(* ---- answer_question ---- *)
\* Mutant: the plain template whatever the search mode.
SelectAnswerPromptAlwaysPlain(graph) == "ANSWER_PROMPT"

\* The template __init__ binds to self.ANSWER_PROMPT
SelectAnswerPrompt(graph) ==
    IF graph THEN "ANSWER_PROMPT_GRAPH" ELSE "ANSWER_PROMPT"

\* user_id.split("_")[0]
SplitFirst(text) ==
    LET at == {i \in 1..Len(text) : SubSeq(text, i, i) = "_"}
    IN IF at = {} THEN text
       ELSE SubSeq(text, 1, (CHOOSE i \in at : \A j \in at : i <= j) - 1)

\* [f"{item['timestamp']}: {item['memory']}" for item in memories]
MemoryLines(mems) ==
    [i \in 1..Len(mems) |-> mems[i].timestamp \o ": " \o mems[i].memory]

\* Mutant: the memories of the first speaker are rendered on both sides.
AnswerPromptOneSided(template, speaker_1_user_id, speaker_2_user_id, found, question) ==
    [template |-> template,
     speaker_1_user_id |-> SplitFirst(speaker_1_user_id),
     speaker_2_user_id |-> SplitFirst(speaker_2_user_id),
     speaker_1_memories |-> MemoryLines(found[1].semantic_memories),
     speaker_2_memories |-> MemoryLines(found[1].semantic_memories),
     speaker_1_graph_memories |-> found[1].graph_memories,
     speaker_2_graph_memories |-> found[1].graph_memories,
     question |-> question]

\* template.render(...): the template and the values bound to its names
AnswerPrompt(template, speaker_1_user_id, speaker_2_user_id, found, question) ==
    [template |-> template,
     speaker_1_user_id |-> SplitFirst(speaker_1_user_id),
     speaker_2_user_id |-> SplitFirst(speaker_2_user_id),
     speaker_1_memories |-> MemoryLines(found[1].semantic_memories),
     speaker_2_memories |-> MemoryLines(found[2].semantic_memories),
     speaker_1_graph_memories |-> found[1].graph_memories,
     speaker_2_graph_memories |-> found[2].graph_memories,
     question |-> question]

\* A search_memory call that returned (its request, what it returned and
\* whether it took the branch that parses the relations), and the chat
\* completion call
SearchOp(request, found) ==
    [op |-> "search", request |-> request, found |-> found,
     relations_parsed |-> is_graph]
GenerateOp(prompt) == [op |-> "generate", prompt |-> prompt]

\* The calls of question q of conversation idx are kept together in the log.
LogOp(log, idx, q, op) ==
    IF Len(log) > 0 /\ log[Len(log)].idx = idx /\ log[Len(log)].q = q
    THEN [log EXCEPT ![Len(log)].ops = Append(@, op)]
    ELSE Append(log, [idx |-> idx, q |-> q, ops |-> <<op>>])

\* The request of the first or second search_memory call of answer_question
QuestionRequest(n, speaker_1_user_id, speaker_2_user_id, val) ==
    SearchRequest(IF n = 1 THEN speaker_1_user_id ELSE speaker_2_user_id,
                  Get(val, "question", ""))

(* ---- process_data_file ---- *)
\* The loop over conversations reaches conversation idx.
EnterConversation(data, idx) ==
    /\ ms_idx' = idx
    /\ ms_q' = 0
    /\ ms_retries' = 0
    /\ ms_found' = <<>>
    /\ ms_pc' = IF idx >= Len(data) THEN "done"
                ELSE IF data[idx + 1].qa = <<>> THEN "save_lock"
                ELSE "search_1"

\* The speaker ids process_data_file passes for conversation idx
SpeakerA(idx) == SpeakerUserId(ms_data[idx + 1].conversation.speaker_a, idx)
SpeakerB(idx) == SpeakerUserId(ms_data[idx + 1].conversation.speaker_b, idx)

\* process_data_file loads the dataset and enters its loop.
ProcessDataFile ==
    /\ ms_pc = "init"
    /\ ms_call' = "process_data_file"
    /\ \E data \in MsInputs :
          /\ ms_data' = data
          /\ EnterConversation(data, 0)
    /\ UNCHANGED <<is_graph, ms_results, lock_holder, disk_file, dump_i, flushes,
                   last_flushed, appended, ms_error, answer_prompt, ms_ops, pqVars>>
    /\ UNCHANGED <<addVars, funVars, searchVars, scoreVars>>

\* A pass of the retry loop of search_memory gets its response: the call
\* returns the memories of one speaker.
SearchMemorySucceeds ==
    /\ ms_call = "process_data_file"
    /\ ms_pc \in {"search_1", "search_2"}
    /\ ms_retries < MsMaxRetries
    /\ LET request == QuestionRequest(IF ms_pc = "search_1" THEN 1 ELSE 2,
                                      SpeakerA(ms_idx), SpeakerB(ms_idx),
                                      CurrentQa[ms_q + 1])
           found == SearchMemoryResult(SearchResponse(request), 15)
       IN /\ ms_found' = Append(ms_found, found)
          /\ ms_ops' = LogOp(ms_ops, ms_idx, ms_q, SearchOp(request, found))
    /\ ms_retries' = 0
    /\ ms_pc' = IF ms_pc = "search_1" THEN "search_2" ELSE "generate"
    /\ UNCHANGED <<is_graph, ms_data, ms_idx, ms_q, ms_results, lock_holder,
                   disk_file, dump_i, flushes, last_flushed, appended, ms_error,
                   answer_prompt, ms_call, pqVars>>
    /\ UNCHANGED <<addVars, funVars, searchVars, scoreVars>>

\* A pass of the retry loop of search_memory ends with an exception: the
\* call is retried, or the exception is raised again and leaves
\* answer_question, process_question and process_data_file.
SearchMemoryFails ==
    /\ ms_call = "process_data_file"
    /\ ms_pc \in {"search_1", "search_2"}
    /\ ms_retries < MsMaxRetries
    /\ ms_retries' = ms_retries + 1
    /\ \E e \in MsFailures :
          IF ms_retries + 1 >= MsMaxRetries
          THEN /\ ms_pc' = "raised"
               /\ ms_error' = e
          ELSE UNCHANGED <<ms_pc, ms_error>>
    /\ UNCHANGED <<is_graph, ms_data, ms_idx, ms_q, ms_found, ms_results,
                   lock_holder, disk_file, dump_i, flushes, last_flushed, appended,
                   answer_prompt, ms_call, ms_ops, pqVars>>
    /\ UNCHANGED <<addVars, funVars, searchVars, scoreVars>>

\* The generation call returns; process_question builds the result and
\* process_data_file appends it: self.results[idx].append(result).
AnswerGenerated ==
    /\ ms_call = "process_data_file"
    /\ ms_pc = "generate"
    /\ ms_ops' = LogOp(ms_ops, ms_idx, ms_q,
                       GenerateOp(AnswerPrompt(answer_prompt, SpeakerA(ms_idx),
                                               SpeakerB(ms_idx), ms_found,
                                               Get(CurrentQa[ms_q + 1], "question", ""))))
    /\ ms_results' = DictAppend(ms_results, ms_idx,
                                QuestionResult(CurrentQa[ms_q + 1], ms_found, "tea", 40))
    /\ ms_found' = <<>>
    /\ appended' = TRUE
    /\ IF ms_q + 1 < Len(CurrentQa)
       THEN /\ ms_q' = ms_q + 1
            /\ ms_pc' = "search_1"
       ELSE /\ ms_pc' = "save_lock"
            /\ UNCHANGED ms_q
    /\ UNCHANGED <<is_graph, ms_data, ms_idx, ms_retries, lock_holder, disk_file,
                   dump_i, flushes, last_flushed, ms_error, answer_prompt, ms_call,
                   pqVars>>
    /\ UNCHANGED <<addVars, funVars, searchVars, scoreVars>>

\* The generation call raises: nothing catches it up to process_data_file.
GenerationFails ==
    /\ ms_call = "process_data_file"
    /\ ms_pc = "generate"
    /\ ms_ops' = LogOp(ms_ops, ms_idx, ms_q,
                       GenerateOp(AnswerPrompt(answer_prompt, SpeakerA(ms_idx),
                                               SpeakerB(ms_idx), ms_found,
                                               Get(CurrentQa[ms_q + 1], "question", ""))))
    /\ ms_pc' = "raised"
    /\ ms_error' = "APIError"
    /\ UNCHANGED <<is_graph, ms_data, ms_idx, ms_q, ms_retries, ms_found, ms_results,
                   lock_holder, disk_file, dump_i, flushes, last_flushed, appended,
                   answer_prompt, ms_call, pqVars>>
    /\ UNCHANGED <<addVars, funVars, searchVars, scoreVars>>

(* ---- process_questions_parallel ---- *)
\* The speaker ids the caller passes
PqSpeakerA == SpeakerUserId("Ann", 0)
PqSpeakerB == SpeakerUserId("Bob", 0)

PqInputs == {SubSeq(QaPool(0), 1, n) : n \in 0..MaxQuestions}

\* The value of a future that has not finished
NoResult == [finished |-> FALSE]

PqRunning == {i \in 1..Len(qa_list) : pq_pc[i] \in {"search_1", "search_2", "generate"}}

\* Mutant: the results are taken in the order the futures finished.
NextResultAsCompleted(outs, finished, n) == outs[finished[n]]

\* executor.map yields the results in the order of its input
NextResult(outs, finished, n) == outs[n]

\* process_questions_parallel opens the pool; executor.map submits one call
\* of process_single_question per question.
ProcessQuestionsParallel ==
    /\ ms_pc = "init"
    /\ ms_call' = "process_questions_parallel"
    /\ ms_pc' = "map"
    /\ \E qa \in PqInputs, workers \in 1..MaxWorkers :
          /\ qa_list' = qa
          /\ pq_workers' = workers
          /\ pq_pc' = [i \in 1..Len(qa) |-> "pending"]
          /\ pq_retries' = [i \in 1..Len(qa) |-> 0]
          /\ pq_found' = [i \in 1..Len(qa) |-> <<>>]
          /\ pq_out' = [i \in 1..Len(qa) |-> NoResult]
          /\ pq_ops' = [i \in 1..Len(qa) |-> <<>>]
    /\ UNCHANGED <<pq_finished, qa_results>>
    /\ UNCHANGED <<is_graph, ms_data, ms_idx, ms_q, ms_retries, ms_found, ms_results,
                   lock_holder, disk_file, dump_i, flushes, last_flushed, appended,
                   ms_error, answer_prompt, ms_ops>>
    /\ UNCHANGED <<addVars, funVars, searchVars, scoreVars>>

\* A worker thread takes the oldest queued call; the pool runs at most
\* max_workers threads.
WorkerTakesQuestion(i) ==
    /\ pq_pc[i] = "pending"
    /\ \A j \in 1..(i - 1) : pq_pc[j] # "pending"
    /\ Cardinality(PqRunning) < pq_workers
    /\ pq_pc' = [pq_pc EXCEPT ![i] = "search_1"]
    /\ UNCHANGED <<qa_list, pq_workers, pq_retries, pq_found, pq_out, pq_ops,
                   pq_finished, qa_results>>
    /\ UNCHANGED <<is_graph, ms_data, ms_pc, ms_idx, ms_q, ms_retries, ms_found,
                   ms_results, lock_holder, disk_file, dump_i, flushes, last_flushed,
                   appended, ms_error, answer_prompt, ms_call, ms_ops>>
    /\ UNCHANGED <<addVars, funVars, searchVars, scoreVars>>

\* search_memory of question i returns the memories of one speaker.
WorkerSearchSucceeds(i) ==
    /\ pq_pc[i] \in {"search_1", "search_2"}
    /\ pq_retries[i] < MsMaxRetries
    /\ LET request == QuestionRequest(IF pq_pc[i] = "search_1" THEN 1 ELSE 2,
                                      PqSpeakerA, PqSpeakerB, qa_list[i])
           found == SearchMemoryResult(SearchResponse(request), 15)
       IN /\ pq_found' = [pq_found EXCEPT ![i] = Append(@, found)]
          /\ pq_ops' = [pq_ops EXCEPT ![i] = Append(@, SearchOp(request, found))]
    /\ pq_retries' = [pq_retries EXCEPT ![i] = 0]
    /\ pq_pc' = [pq_pc EXCEPT ![i] = IF @ = "search_1" THEN "search_2" ELSE "generate"]
    /\ UNCHANGED <<qa_list, pq_workers, pq_out, pq_finished, qa_results>>
    /\ UNCHANGED <<is_graph, ms_data, ms_pc, ms_idx, ms_q, ms_retries, ms_found,
                   ms_results, lock_holder, disk_file, dump_i, flushes, last_flushed,
                   appended, ms_error, answer_prompt, ms_call, ms_ops>>
    /\ UNCHANGED <<addVars, funVars, searchVars, scoreVars>>

\* A pass of the retry loop of question i ends with an exception: the call
\* is retried, or the exception becomes the outcome of the future.
WorkerSearchFails(i) ==
    /\ pq_pc[i] \in {"search_1", "search_2"}
    /\ pq_retries[i] < MsMaxRetries
    /\ pq_retries' = [pq_retries EXCEPT ![i] = @ + 1]
    /\ \E e \in MsFailures :
          IF pq_retries[i] + 1 >= MsMaxRetries
          THEN /\ pq_pc' = [pq_pc EXCEPT ![i] = "raised"]
               /\ pq_out' = [pq_out EXCEPT ![i] = [raises |-> e]]
               /\ pq_finished' = Append(pq_finished, i)
          ELSE UNCHANGED <<pq_pc, pq_out, pq_finished>>
    /\ UNCHANGED <<qa_list, pq_workers, pq_found, pq_ops, qa_results>>
    /\ UNCHANGED <<is_graph, ms_data, ms_pc, ms_idx, ms_q, ms_retries, ms_found,
                   ms_results, lock_holder, disk_file, dump_i, flushes, last_flushed,
                   appended, ms_error, answer_prompt, ms_call, ms_ops>>
    /\ UNCHANGED <<addVars, funVars, searchVars, scoreVars>>

\* The generation call of question i returns or raises; process_question
\* returns the result dictionary, which becomes the outcome of the future.
WorkerGenerates(i) ==
    /\ pq_pc[i] = "generate"
    /\ pq_ops' = [pq_ops EXCEPT ![i] =
                    Append(@, GenerateOp(AnswerPrompt(answer_prompt, PqSpeakerA,
                                                      PqSpeakerB, pq_found[i],
                                                      Get(qa_list[i], "question", ""))))]
    /\ \E ok \in BOOLEAN :
          IF ok
          THEN /\ pq_pc' = [pq_pc EXCEPT ![i] = "done"]
               /\ pq_out' = [pq_out EXCEPT ![i] =
                               QuestionResult(qa_list[i], pq_found[i], "tea", 40)]
          ELSE /\ pq_pc' = [pq_pc EXCEPT ![i] = "raised"]
               /\ pq_out' = [pq_out EXCEPT ![i] = [raises |-> "APIError"]]
    /\ pq_finished' = Append(pq_finished, i)
    /\ UNCHANGED <<qa_list, pq_workers, pq_retries, pq_found, qa_results>>
    /\ UNCHANGED <<is_graph, ms_data, ms_pc, ms_idx, ms_q, ms_retries, ms_found,
                   ms_results, lock_holder, disk_file, dump_i, flushes, last_flushed,
                   appended, ms_error, answer_prompt, ms_call, ms_ops>>
    /\ UNCHANGED <<addVars, funVars, searchVars, scoreVars>>

\* list(executor.map(...)) takes the next result once its future has
\* finished; after the last one the pool is left and _save_to_disk called.
MapYields ==
    /\ ms_pc = "map"
    /\ IF Len(qa_results) < Len(qa_list)
       THEN /\ pq_pc[Len(qa_results) + 1] = "done"
            /\ qa_results' = Append(qa_results,
                                    NextResult(pq_out, pq_finished, Len(qa_results) + 1))
            /\ UNCHANGED ms_pc
       ELSE /\ ms_pc' = "save_lock"
            /\ UNCHANGED qa_results
    /\ UNCHANGED <<qa_list, pq_workers, pq_pc, pq_retries, pq_found, pq_out, pq_ops,
                   pq_finished>>
    /\ UNCHANGED <<is_graph, ms_data, ms_idx, ms_q, ms_retries, ms_found, ms_results,
                   lock_holder, disk_file, dump_i, flushes, last_flushed, appended,
                   ms_error, answer_prompt, ms_call, ms_ops>>
    /\ UNCHANGED <<addVars, funVars, searchVars, scoreVars>>

\* The next future holds an exception: the iterator raises it and cancels
\* the futures no worker has taken.
MapRaises ==
    /\ ms_pc = "map"
    /\ Len(qa_results) < Len(qa_list)
    /\ pq_pc[Len(qa_results) + 1] = "raised"
    /\ ms_error' = pq_out[Len(qa_results) + 1].raises
    /\ pq_pc' = [i \in 1..Len(qa_list) |->
                    IF pq_pc[i] = "pending" THEN "cancelled" ELSE pq_pc[i]]
    /\ ms_pc' = "shutdown"
    /\ UNCHANGED <<qa_list, pq_workers, pq_retries, pq_found, pq_out, pq_ops,
                   pq_finished, qa_results>>
    /\ UNCHANGED <<is_graph, ms_data, ms_idx, ms_q, ms_retries, ms_found, ms_results,
                   lock_holder, disk_file, dump_i, flushes, last_flushed, appended,
                   answer_prompt, ms_call, ms_ops>>
    /\ UNCHANGED <<addVars, funVars, searchVars, scoreVars>>

\* Leaving the `with` block waits for the running workers; the exception
\* then leaves process_questions_parallel.
ExecutorExits ==
    /\ ms_pc = "shutdown"
    /\ PqRunning = {}
    /\ ms_pc' = "raised"
    /\ UNCHANGED <<is_graph, ms_data, ms_idx, ms_q, ms_retries, ms_found, ms_results,
                   lock_holder, disk_file, dump_i, flushes, last_flushed, appended,
                   ms_error, answer_prompt, ms_call, ms_ops, pqVars>>
    /\ UNCHANGED <<addVars, funVars, searchVars, scoreVars>>

(* ---- _save_to_disk ---- *)
\* `with self.lock:`
SaveAcquire ==
    /\ ms_pc = "save_lock"
    /\ lock_holder = None
    /\ lock_holder' = "main"
    /\ ms_pc' = "save_open"
    /\ UNCHANGED <<is_graph, ms_data, ms_idx, ms_q, ms_retries, ms_found, ms_results,
                   disk_file, dump_i, flushes, last_flushed, appended, ms_error,
                   answer_prompt, ms_call, ms_ops, pqVars>>
    /\ UNCHANGED <<addVars, funVars, searchVars, scoreVars>>

\* open(self.output_path, "w", ...)
SaveOpen ==
    /\ ms_pc = "save_open"
    /\ disk_file' = OpenForWrite(disk_file)
    /\ dump_i' = 0
    /\ ms_pc' = "save_dump"
    /\ UNCHANGED <<is_graph, ms_data, ms_idx, ms_q, ms_retries, ms_found, ms_results,
                   lock_holder, flushes, last_flushed, appended, ms_error,
                   answer_prompt, ms_call, ms_ops, pqVars>>
    /\ UNCHANGED <<addVars, funVars, searchVars, scoreVars>>

\* json.dump writes the mapping piece by piece: the next entry, or after
\* the last entry the closing brace.
SaveDump ==
    /\ ms_pc = "save_dump"
    /\ LET text == Serialize(ms_results)
       IN IF dump_i < Len(text)
          THEN /\ disk_file' = [disk_file EXCEPT !.written = Append(@, text[dump_i + 1])]
               /\ dump_i' = dump_i + 1
               /\ UNCHANGED ms_pc
          ELSE /\ disk_file' = [disk_file EXCEPT !.complete = TRUE]
               /\ ms_pc' = "save_close"
               /\ UNCHANGED dump_i
    /\ UNCHANGED <<is_graph, ms_data, ms_idx, ms_q, ms_retries, ms_found, ms_results,
                   lock_holder, flushes, last_flushed, appended, ms_error,
                   answer_prompt, ms_call, ms_ops, pqVars>>
    /\ UNCHANGED <<addVars, funVars, searchVars, scoreVars>>

\* The file is closed and the lock released.  The loop of process_data_file
\* goes to the next conversation; process_questions_parallel returns
\* qa_results.
SaveClose ==
    /\ ms_pc = "save_close"
    /\ lock_holder' = None
    /\ flushes' = flushes + 1
    /\ last_flushed' = disk_file
    /\ appended' = FALSE
    /\ IF ms_call = "process_questions_parallel"
       THEN /\ ms_pc' = "returned"
            /\ UNCHANGED <<ms_idx, ms_q, ms_retries, ms_found>>
       ELSE EnterConversation(ms_data, ms_idx + 1)
    /\ UNCHANGED <<is_graph, ms_data, ms_results, disk_file, dump_i, ms_error,
                   answer_prompt, ms_call, ms_ops, pqVars>>
    /\ UNCHANGED <<addVars, funVars, searchVars, scoreVars>>

\* MemorySearch(...): the object after __init__
MemorySearchConstructed ==
    /\ is_graph \in BOOLEAN
    /\ answer_prompt = SelectAnswerPrompt(is_graph)
    /\ ms_call = "none"
    /\ ms_ops = <<>>
    /\ ms_data = <<>>
    /\ ms_pc = "init"
    /\ ms_idx = 0
    /\ ms_q = 0
    /\ ms_retries = 0
    /\ ms_found = <<>>
    /\ ms_results = <<>>
    /\ lock_holder = None
    /\ disk_file = NoFile
    /\ dump_i = 0
    /\ flushes = 0
    /\ last_flushed = NoFile
    /\ appended = FALSE
    /\ ms_error = None
    /\ PqIdle

InitMs ==
    /\ MemorySearchConstructed
    /\ AddIdle
    /\ FunIdle
    /\ SearchIdle
    /\ ScoreIdle

MsNext ==
    \/ ProcessDataFile
    \/ SearchMemorySucceeds
    \/ SearchMemoryFails
    \/ AnswerGenerated
    \/ GenerationFails
    \/ ProcessQuestionsParallel
    \/ \E i \in 1..Len(qa_list) :
          \/ WorkerTakesQuestion(i)
          \/ WorkerSearchSucceeds(i)
          \/ WorkerSearchFails(i)
          \/ WorkerGenerates(i)
    \/ MapYields
    \/ MapRaises
    \/ ExecutorExits
    \/ SaveAcquire
    \/ SaveOpen
    \/ SaveDump
    \/ SaveClose

SpecMs == InitMs /\ [][MsNext]_vars

(* ------------------------------------------------------------------ *)
(* run_longmemeval_eval.py: the loop of run_longmemeval_evaluation     *)
(* ------------------------------------------------------------------ *)
MaxRunConversations == 10

\* `if (idx + 1) % 10 == 0`
SaveEvery == 10

\* A converted conversation of the dataset
RunConversation(i) ==
    [conversation_id |-> "q" \o ToString(i),
     user_id |-> "longmemeval_q" \o ToString(i),
     query |-> "what is the plan?",
     ground_truth |-> "a walk",
     question_type |-> "multi_session",
     is_abstention |-> FALSE]

\* The call that raised, as the text of its exception.  Each conversation
\* can fail in two of the three calls, which two depending on its position.
RunStages == <<"add_conversation raised", "search_and_respond raised",
               "evaluate_conversation raised">>
RunFailures(idx) == {RunStages[k] : k \in (1..3) \ {(idx % 3) + 1}}

\* What evaluator.evaluate_conversation returns
ConversationResult(conversation, add_metrics, results) ==
    [conversation_id |-> conversation.conversation_id,
     question_type |-> conversation.question_type,
     question |-> conversation.query,
     ground_truth |-> conversation.ground_truth,
     is_abstention |-> conversation.is_abstention,
     add_phase |-> add_metrics.add_phase,
     search_response_phase |-> results]

\* Mutant: the failed conversation is passed over without an entry.
RunRecordErrorDrops(results, conversation, e) == results

\* The `except Exception` branch: results.append(error_result)
RunRecordError(results, conversation, e) ==
    Append(results, [conversation_id |-> conversation.conversation_id,
                     error |-> e,
                     question_type |-> conversation.question_type,
                     question |-> conversation.query])

\* `if (idx + 1) % 10 == 0`
SaveDue(idx) == (idx + 1) % SaveEvery = 0

\* The end of a pass of the loop: the intermediate file when it is due,
\* then the next conversation or the end of the loop.
EndOfPass(new_results) ==
    /\ run_results' = new_results
    /\ intermediate_files' =
          IF SaveDue(run_idx)
          THEN Append(intermediate_files,
                      [name |-> "intermediate_results_" \o ToString(run_idx + 1),
                       content |-> new_results])
          ELSE intermediate_files
    /\ run_idx' = run_idx + 1
    /\ run_pc' = IF run_idx + 1 >= Len(converted_data) THEN "done" ELSE "loop"

\* run_longmemeval_evaluation has converted the dataset and enters its loop.
RunLongMemEvalEvaluation ==
    /\ run_pc = "init"
    /\ \E n \in 0..MaxRunConversations :
          /\ converted_data' = [i \in 1..n |-> RunConversation(i)]
          /\ run_pc' = IF n = 0 THEN "done" ELSE "loop"
    /\ UNCHANGED <<run_idx, run_results, run_outcomes, intermediate_files>>
    /\ UNCHANGED <<addVars, convVars, mem0Vars, searchVars, scoreVars, msVars>>

\* The three steps of a conversation return: its result is appended.
ConversationEvaluated ==
    /\ run_pc = "loop"
    /\ run_outcomes' = Append(run_outcomes, "ok")
    /\ EndOfPass(Append(run_results,
                        ConversationResult(converted_data[run_idx + 1],
                                           [add_phase |-> [total_tokens |-> 6]], <<>>)))
    /\ UNCHANGED converted_data
    /\ UNCHANGED <<addVars, convVars, mem0Vars, searchVars, scoreVars, msVars>>

\* One of the three steps raises: the handler appends an error entry.
ConversationRaises ==
    /\ run_pc = "loop"
    /\ \E e \in RunFailures(run_idx) :
          /\ run_outcomes' = Append(run_outcomes, e)
          /\ EndOfPass(RunRecordError(run_results, converted_data[run_idx + 1], e))
    /\ UNCHANGED converted_data
    /\ UNCHANGED <<addVars, convVars, mem0Vars, searchVars, scoreVars, msVars>>

InitRun ==
    /\ run_pc = "init"
    /\ converted_data = <<>>
    /\ run_idx = 0
    /\ run_results = <<>>
    /\ run_outcomes = <<>>
    /\ intermediate_files = <<>>
    /\ ConvIdle
    /\ Mem0Idle
    /\ AddIdle
    /\ SearchIdle
    /\ ScoreIdle
    /\ MsIdle

RunNext ==
    \/ RunLongMemEvalEvaluation
    \/ ConversationEvaluated
    \/ ConversationRaises

SpecRun == InitRun /\ [][RunNext]_vars

(* ------------------------------------------------------------------ *)
(* longmemeval/add.py: add_conversation_async under a fair scheduler   *)
(* ------------------------------------------------------------------ *)
\* LongMemEvalMemoryAdder(...) after __init__
InitLongMemEvalAdd ==
    /\ AddInit
    /\ adder = "longmemeval"
    /\ FunIdle
    /\ SearchIdle
    /\ ScoreIdle
    /\ MsIdle

AcquireStep == \E t \in Tasks : TaskAcquire(t)
RespondStep == \E t \in Tasks, kind \in ResponseKinds : PostResponds(t, kind)
SleepStep == \E t \in Tasks : SleepEnds(t)

LongMemEvalAddNext ==
    \/ AddConversationAsync
    \/ AcquireStep
    \/ RespondStep
    \/ SleepStep
    \/ AwaitBatch
    \/ ReturnMetrics

\* Every step of the adder changes the position of the caller or of a task.
progressVars == <<apc, tpc, awaited>>

\* The event loop runs every coroutine that can take a step, a sleep ends,
\* and every POST returns or runs into the timeout of its client.
SpecLongMemEvalAddFair ==
    /\ InitLongMemEvalAdd
    /\ [][LongMemEvalAddNext]_vars
    /\ WF_progressVars(AddConversationAsync)
    /\ WF_progressVars(AcquireStep)
    /\ WF_progressVars(RespondStep)
    /\ WF_progressVars(SleepStep)
    /\ WF_progressVars(AwaitBatch)
    /\ WF_progressVars(ReturnMetrics)

(* ------------------------------------------------------------------ *)
(* run_longmemeval_eval.py: steps 1 and 2 of the loop body             *)
(* ------------------------------------------------------------------ *)
\* Mutant: the search phase is entered only when no batch failed.
AddPhaseReturnedWithoutFailures ==
    apc = "returned" /\ metrics.add_phase.failed_batches = 0

\* `add_metrics = adder.add_conversation(...)` has returned: asyncio.run hands
\* back what add_conversation_async returned, and the next statement runs.
AddPhaseReturned == apc = "returned"

\* Step 2: searcher.search_and_respond(user_id, query, top_k_values).  The
\* depth list is the one of the run; here it holds at most one depth, the
\* order of the two steps being the same for every list.
RunSearchAndRespond ==
    /\ AddPhaseReturned
    /\ SearchAndRespond
    /\ Len(top_k_values') <= 1

\* The adder and the searcher run_longmemeval_evaluation has constructed,
\* before step 1 for one conversation. LongMemEvalMemoryAdder() is built
\* with its default batch size, the largest of the model.
InitAddThenSearch ==
    /\ AddInit
    /\ adder = "longmemeval"
    /\ batch_size = MaxBatchSize
    /\ SearcherConstructed
    /\ searcher = "longmemeval"
    /\ FunIdle
    /\ ScoreIdle
    /\ MsIdle

AddThenSearchNext ==
    \/ AddConversationAsync
    \/ AcquireStep
    \/ RespondStep
    \/ SleepStep
    \/ AwaitBatch
    \/ ReturnMetrics
    \/ RunSearchAndRespond
    \/ SearchSucceeds
    \/ SearchFails
    \/ GenerateSucceeds
    \/ GenerateFails

SpecAddThenSearch == InitAddThenSearch /\ [][AddThenSearchNext]_vars

(* ------------------------------------------------------------------ *)
(* longmemeval/add.py: add_conversation_async with its clock readings  *)
(* ------------------------------------------------------------------ *)
\* LongMemEvalMemoryAdder(batch_size = MaxBatchSize), the clock followed
InitLongMemEvalAddTimed ==
    /\ AdderConstructed
    /\ adder = "longmemeval"
    /\ batch_size = MaxBatchSize
    /\ timed = TRUE
    /\ FunIdle
    /\ SearchIdle
    /\ ScoreIdle
    /\ MsIdle

SpecLongMemEvalAddTimed == InitLongMemEvalAddTimed /\ [][LongMemEvalAddNext]_vars

(* ------------------------------------------------------------------ *)
(* run_mem0_evaluation.py: main and run_evaluation                     *)
(* ------------------------------------------------------------------ *)
\* The names bound at module level: the imports, CATEGORY_MAPPING and the
\* three functions
ModuleGlobals ==
    {"argparse", "json", "os", "sys", "defaultdict", "ThreadPoolExecutor",
     "datetime", "load_dotenv", "tqdm", "MemorySearch", "evaluate_llm_judge",
     "calculate_bleu_scores", "calculate_metrics", "CATEGORY_MAPPING",
     "process_item", "run_evaluation", "main"}

\* The names main binds: `import threading` is a statement of its body
MainLocals == {"parser", "args", "threading"}

\* The parameters of run_evaluation and the names it assigns before step 2
RunEvaluationLocals ==
    {"data_file", "output_folder", "top_k", "filter_memories", "is_graph",
     "max_workers", "timestamp", "experiment_name", "experiment_dir",
     "search_results_file", "memory_searcher", "eval_metrics_file", "f",
     "search_data", "results"}

\* A name read in a function body is looked up in the function's own locals
\* and then in the module's globals; the locals of its caller are not searched
Resolves(name, locals) == name \in locals \cup ModuleGlobals

\* The files run_evaluation itself writes into the experiment directory
EvalMetricsFile == "evaluation_metrics.json"
ScoresCsvFile == "scores.csv"
MetadataFile == "metadata.json"

\* main parses the arguments, imports threading and calls run_evaluation,
\* which creates the experiment directory and constructs the MemorySearch.
RunEvaluation ==
    /\ m0_pc = "init"
    /\ m0_pc' = "search"
    /\ UNCHANGED <<m0_files, m0_error>>
    /\ UNCHANGED <<addVars, convVars, runVars, searchVars, scoreVars, msVars>>

\* memory_searcher.process_data_file(data_file)
Mem0ProcessDataFile ==
    /\ m0_pc = "search"
    /\ ProcessDataFile

\* The statements after step 1, up to the return or to the first exception:
\* search_results.json is opened and loaded, `threading.Lock()` looks the name
\* threading up, the loop calls .result() on what map yields (the dictionaries
\* process_item returned), evaluation_metrics.json is dumped, the DataFrame of
\* the flattened items is grouped by "category_name", scores.csv and
\* metadata.json are written.
EvaluateAndScore ==
    /\ m0_pc = "search"
    /\ ms_pc = "done"
    /\ IF ~disk_file.exists
       THEN /\ m0_error' = "FileNotFoundError"
            /\ m0_files' = m0_files
       ELSE IF ~Resolves("threading", RunEvaluationLocals)
       THEN /\ m0_error' = "NameError"
            /\ m0_files' = m0_files
       ELSE IF disk_file.written # <<>>
       THEN /\ m0_error' = "AttributeError"
            /\ m0_files' = m0_files
       ELSE /\ m0_error' = "KeyError"
            /\ m0_files' = Append(m0_files, EvalMetricsFile)
    /\ m0_pc' = "raised"
    /\ UNCHANGED <<addVars, convVars, runVars, searchVars, scoreVars, msVars>>

\* The searcher and every call it makes succeed
InitMem0Run ==
    /\ MemorySearchConstructed
    /\ m0_pc = "init"
    /\ m0_files = <<>>
    /\ m0_error = None
    /\ ConvIdle
    /\ RunIdle
    /\ AddIdle
    /\ SearchIdle
    /\ ScoreIdle

Mem0RunNext ==
    \/ RunEvaluation
    \/ Mem0ProcessDataFile
    \/ SearchMemorySucceeds
    \/ AnswerGenerated
    \/ SaveAcquire
    \/ SaveOpen
    \/ SaveDump
    \/ SaveClose
    \/ EvaluateAndScore

\* What changes in every step of the pipeline
mem0Progress == <<m0_pc, ms_pc, ms_q, dump_i>>

\* The script is one thread: while a statement can run, it runs
SpecMem0RunFair ==
    InitMem0Run /\ [][Mem0RunNext]_vars /\ WF_mem0Progress(Mem0RunNext)

(* ------------------------------------------------------------------ *)
(* memzero/add.py: _run_tasks on a dataset of two conversations        *)
(* ------------------------------------------------------------------ *)
\* _run_tasks builds the tasks of every conversation of self.data, creates
\* one semaphore and schedules all of them behind it.
RunTasksTwoConversations ==
    /\ adder = "memzero"
    /\ apc = "init"
    /\ \E mc \in 1..MaxConcurrent :
          Launch(<<MzItem(1), MzItem(2)>>, mc,
                 RunTasksData(<<MzItem(1), MzItem(2)>>, 0, batch_size))
    /\ UNCHANGED <<funVars, searchVars, scoreVars, msVars>>

\* MemoryADD(data_path, batch_size) after load_data
InitMemzeroAdd ==
    /\ AddInit
    /\ adder = "memzero"
    /\ FunIdle
    /\ SearchIdle
    /\ ScoreIdle
    /\ MsIdle

MemzeroAddNext ==
    \/ RunTasksTwoConversations
    \/ \E t \in Tasks : TaskAcquire(t)
    \/ \E t \in Tasks, kind \in ResponseKinds : PostResponds(t, kind)
    \/ \E t \in Tasks : SleepEnds(t)
    \/ AwaitMemory
    \/ RunTasksReturn

SpecMemzeroAdd == InitMemzeroAdd /\ [][MemzeroAddNext]_vars

Init == AddInit /\ FunIdle /\ SearchIdle /\ ScoreIdle /\ MsIdle

Next == AddNext

Spec == Init /\ [][Next]_vars

(* ------------------------------------------------------------------ *)
(* Claims about the adders                                             *)
(* ------------------------------------------------------------------ *)
Succeeded(t) == tpc[t] = "done" /\ Get(tresult[t], "success", FALSE)
Failed(t) == tpc[t] = "done" /\ ~Get(tresult[t], "success", TRUE)

\* C1: at every instant the number of batch tasks with a POST /memories
\* request in flight is at most max_concurrent, in add_conversation_async
\* and in _run_tasks, for every number of batches and every interleaving.
C1_InFlightAtMostMaxConcurrent ==
    apc # "init" => Cardinality(InFlight) <= max_concurrent

\* The gate is full while another batch waits behind it.
C1_Witness ==
    /\ apc = "await"
    /\ Len(tasks_data) > max_concurrent
    /\ Cardinality(InFlight) = max_concurrent
    /\ \E t \in Tasks : tpc[t] = "waiting"

\* C2: when add_conversation_async returns, successful_batches +
\* failed_batches equals batches_count, the number of batches formed from
\* the conversation, whatever the requests' successes and failures were.
C2_CountsAddUp ==
    (adder = "longmemeval" /\ apc = "returned") =>
        /\ metrics.add_phase.batches_count =
              Len(SplitBatches(add_input.messages, batch_size))
        /\ metrics.add_phase.successful_batches + metrics.add_phase.failed_batches
              = metrics.add_phase.batches_count

\* The call returned with batches of both outcomes.
C2_Witness ==
    /\ adder = "longmemeval"
    /\ apc = "returned"
    /\ metrics.add_phase.successful_batches >= 1
    /\ metrics.add_phase.failed_batches >= 1

\* C3: a batch whose attempts all fail is counted in failed_batches and
\* stops no sibling: the call never ends by an exception of a batch, at the
\* return every batch has reached an outcome, the outcome of each batch is
\* success exactly when its own last response was a success, and
\* failed_batches counts exactly the batches whose last response failed.
C3_FailureIsolated ==
    /\ apc # "raised"
    /\ (adder = "longmemeval" /\ apc = "returned") =>
          /\ \A t \in Tasks : tpc[t] = "done" /\ "success" \in DOMAIN tresult[t]
          /\ \A t \in Tasks : tresult[t].success <=> (final_response[t] = "ok")
          /\ metrics.add_phase.failed_batches =
                Cardinality({t \in Tasks : final_response[t] # "ok"})
          /\ metrics.add_phase.successful_batches =
                Cardinality({t \in Tasks : final_response[t] = "ok"})

\* The call returned after one batch ran out of attempts on timeouts and a
\* sibling submitted after it succeeded.
C3_Witness ==
    /\ adder = "longmemeval"
    /\ apc = "returned"
    /\ \E t1, t2 \in Tasks :
          /\ t1 < t2
          /\ final_response[t1] = "timeout" /\ ~tresult[t1].success
          /\ final_response[t2] = "ok" /\ tresult[t2].success

\* C4: a batch submission makes at most 3 POST attempts, stops at its first
\* successful attempt, retries after every kind of failed attempt while
\* attempts remain, and is reported failed only after exactly 3 failed
\* attempts.
C4_AtMostThreeAttempts ==
    \A t \in Tasks :
        /\ posts[t] <= 3
        /\ got_ok[t] => Succeeded(t)
        /\ Succeeded(t) => got_ok[t]
        /\ (tpc[t] = "done" /\ ~Succeeded(t)) =>
              /\ Failed(t)
              /\ posts[t] = 3
              /\ final_response[t] \in ResponseKinds \ {"ok"}

\* Batches that failed after 3 attempts, each ended by another kind of
\* failure, beside one that succeeded on its third attempt.
C4_Witness ==
    \E t1, t2 \in Tasks :
        /\ Failed(t1) /\ posts[t1] = 3
        /\ Succeeded(t2) /\ posts[t2] = 3
        /\ final_response[t1] = "connect_error"

(* ------------------------------------------------------------------ *)
(* Claims about the converter and the batch splitting                  *)
(* ------------------------------------------------------------------ *)
SessionsOf(data) == Get(data, "haystack_sessions", <<>>)
TurnCount(sessions) == SumSeq([s \in 1..Len(sessions) |-> Len(sessions[s])])
\* Turns of the sessions before session s
TurnsBefore(sessions, s) == TurnCount(SubSeq(sessions, 1, s - 1))
\* The chat lists of a memzero item, in key order
MemzeroSessions(item) ==
    LET entries == SelectSeq(item.conversation,
                       LAMBDA e : /\ e.key \notin {"speaker_a", "speaker_b"}
                                  /\ ~EndsWith(e.key, "_date_time"))
    IN [s \in 1..Len(entries) |-> entries[s].value]

\* C5: for every message sequence and batch_size >= 1 the batches are
\* consecutive chunks: each is non-empty and has at most batch_size
\* messages, all but the last exactly batch_size, and their concatenation
\* in submission order is the original sequence.
C5_BatchesAreConsecutiveChunks ==
    fpc \in {"split", "conv_split"} =>
        /\ \A b \in 1..Len(split_out) :
              /\ split_out[b] # <<>>
              /\ Len(split_out[b]) <= split_bs
              /\ b < Len(split_out) => Len(split_out[b]) = split_bs
        /\ Flatten(split_out) = split_in

\* A sequence of different messages split into several batches, the last
\* one short.
C5_Witness ==
    /\ fpc = "split"
    /\ Len(split_out) >= 2
    /\ split_bs >= 2
    /\ Len(split_out[Len(split_out)]) < split_bs
    /\ split_in[1] # split_in[2]

\* C6: the number of messages produced for a conversation equals the sum of
\* the turn counts of all its sessions.
C6_MessageCountIsTurnCount ==
    fpc = "converted" =>
        Len(conv_messages) = TurnCount(SessionsOf(conversation_data))

\* A conversation of several sessions, one of them beyond the dates given.
C6_Witness ==
    /\ fpc = "converted"
    /\ Len(SessionsOf(conversation_data)) >= 2
    /\ Len(SessionsOf(conversation_data)) > Len(conversation_data.haystack_dates)
    /\ \A s \in 1..Len(SessionsOf(conversation_data)) :
          Len(SessionsOf(conversation_data)[s]) >= 1

\* C7: the messages are ordered by session index and, within a session, by
\* the turn's position; each message carries the turn's role and content
\* and the 0-based index of the session its turn came from.
C7_OrderedBySessionThenTurn ==
    fpc = "converted" =>
        LET sessions == SessionsOf(conversation_data)
        IN \A s \in 1..Len(sessions) : \A p \in 1..Len(sessions[s]) :
              LET k == TurnsBefore(sessions, s) + p
              IN /\ k <= Len(conv_messages)
                 /\ conv_messages[k].role = sessions[s][p].role
                 /\ conv_messages[k].content = sessions[s][p].content
                 /\ conv_messages[k].metadata.has_answer = sessions[s][p].has_answer
                 /\ conv_messages[k].metadata.session_index = s - 1

\* Two sessions whose turns differ, so that any reordering shows.
C7_Witness ==
    /\ fpc = "converted"
    /\ LET sessions == SessionsOf(conversation_data)
       IN /\ Len(sessions) = 2
          /\ Len(sessions[1]) >= 2
          /\ sessions[1][1] # sessions[1][2]
          /\ Len(sessions[2]) >= 1
          /\ sessions[2][1] # sessions[1][Len(sessions[1])]

RecordedTokens(result) ==
    IF "token_counts" \in DOMAIN result THEN result.token_counts ELSE result

\* C9: search_and_respond returns exactly one result per requested depth,
\* in the order of the request and tagged with its top_k; a depth whose
\* search or generation failed gets an error-flagged result and the loop
\* goes on with the next depth.
C9_OneResultPerDepth ==
    searcher = "longmemeval" =>
        /\ spc # "raised"
        /\ Len(search_results) = (IF spc = "done" THEN Len(top_k_values) ELSE depth_i)
        /\ Len(depth_outcomes) = Len(search_results)
        /\ \A i \in 1..Len(search_results) :
              /\ search_results[i].top_k = top_k_values[i]
              /\ ("error" \in DOMAIN search_results[i]) <=> (depth_outcomes[i] # "ok")

\* A run over two different depths: the first failed in its generation
\* after a successful search, the second was answered.
C9_Witness ==
    /\ searcher = "longmemeval"
    /\ spc = "done"
    /\ Len(top_k_values) = 2
    /\ top_k_values[1] # top_k_values[2]
    /\ depth_outcomes = <<"generate_failed", "ok">>
    /\ search_results[2].answer = "tea"

\* C10: when the generation response carries a populated usage object, the
\* recorded input_tokens, output_tokens and total_tokens are the
\* provider's prompt_tokens, completion_tokens and total_tokens.
C10_ProviderUsageIsRecorded ==
    \A i \in 1..Len(search_results) :
        UsagePresent(provider_usage[i]) =>
            /\ RecordedTokens(search_results[i]).input_tokens
                  = provider_usage[i].prompt_tokens
            /\ RecordedTokens(search_results[i]).output_tokens
                  = provider_usage[i].completion_tokens
            /\ RecordedTokens(search_results[i]).total_tokens
                  = provider_usage[i].total_tokens

\* A result whose provider counts all differ from the local estimate.
C10_Witness ==
    \E i \in 1..Len(search_results) :
        /\ UsagePresent(provider_usage[i])
        /\ LET t == RecordedTokens(search_results[i])
           IN /\ t.estimated_input_tokens # provider_usage[i].prompt_tokens
              /\ t.estimated_output_tokens # provider_usage[i].completion_tokens
              /\ t.estimated_input_tokens + t.estimated_output_tokens
                    # provider_usage[i].total_tokens

\* C11: when the generation response carries no usage object, the recorded
\* input_tokens, output_tokens and total_tokens are the local estimate
\* (total = estimated input + estimated output), and the record is flagged
\* as estimated: it differs from every record that holds provider-reported
\* counts.
C11_EstimateIsRecordedAndFlagged ==
    \A i \in 1..Len(search_results) :
        (depth_outcomes[i] = "ok" /\ ~UsagePresent(provider_usage[i])) =>
            LET t == RecordedTokens(search_results[i])
            IN /\ t.input_tokens = t.estimated_input_tokens
               /\ t.output_tokens = t.estimated_output_tokens
               /\ t.total_tokens = t.estimated_input_tokens + t.estimated_output_tokens
               /\ \A j \in 1..Len(search_results) :
                     (depth_outcomes[j] = "ok" /\ UsagePresent(provider_usage[j])) =>
                         LET u == RecordedTokens(search_results[j])
                         IN <<t.input_tokens, t.output_tokens, t.total_tokens,
                              t.estimated_input_tokens, t.estimated_output_tokens>>
                            # <<u.input_tokens, u.output_tokens, u.total_tokens,
                                u.estimated_input_tokens, u.estimated_output_tokens>>

(* ---- scoring: evals.py, generate_scores.py ---- *)
\* The input items of future f that process_item scores (not category "5")
ScoredInputs(f) ==
    SelectSeq(eval_data[f].value, LAMBDA item : Str(item.category) # "5")

\* The records the saved mapping holds under the key of future f
SavedRecords(f) == DictGet(output_file, eval_data[f].key, <<>>)

\* record is the output record of item
RecordOf(record, item) ==
    /\ record.question = item.question
    /\ record.answer = item.answer
    /\ record.response = item.response
    /\ record.category = Str(item.category)

\* C12: records of category "5" never contribute to a per-category or
\* overall mean, but each of them is present in the raw per-question output
\* list written by the scoring stage.
C12_AdversarialKeptButNeverAveraged ==
    /\ mpc \in {"saved", "scored"} =>
          \A f \in Futures :
              \A p1 \in 1..Len(eval_data[f].value) :
                  Str(eval_data[f].value[p1].category) = "5" =>
                      \E r \in 1..Len(SavedRecords(f)) :
                          RecordOf(SavedRecords(f)[r], eval_data[f].value[p1])
    /\ mpc = "scored" =>
          /\ "adversarial" \notin DOMAIN scores.category_result
          /\ scores.overall_means =
                MeanScores(SelectSeq(AllItems(output_file),
                                     LAMBDA r : r.category # "5"))

\* C13: for any number of keys, any pool size and any completion order, the
\* saved mapping holds for each key exactly the records of the scored
\* input items of that key, one each, and no other key.
C13_OneRecordPerScoredItem ==
    mpc \in {"saved", "scored"} =>
        /\ \A e \in 1..Len(output_file) :
              /\ \E f \in Futures : eval_data[f].key = output_file[e].key
              /\ \A e2 \in 1..Len(output_file) :
                    output_file[e2].key = output_file[e].key => e2 = e
        /\ \A f \in Futures :
              /\ Len(SavedRecords(f)) = Len(ScoredInputs(f))
              /\ \A r \in 1..Len(SavedRecords(f)) :
                    RecordOf(SavedRecords(f)[r], ScoredInputs(f)[r])

\* Two conversations with scored items, two workers, and the second
\* conversation merged before the first.
C13_Witness ==
    /\ mpc = "saved"
    /\ max_workers = 2
    /\ Len(eval_data) = 2
    /\ Len(output_file) = 2
    /\ output_file[1].key = eval_data[2].key
    /\ Len(ScoredInputs(2)) >= 1
    /\ Len(ScoredInputs(1)) < Len(eval_data[1].value)

\* C19: a failure of the judge call for one record is recorded for that
\* record alone: it ends neither the worker's pass over the conversation
\* (the other records are still scored) nor the run (the results are still
\* saved).
C19_JudgeFailureIsPerRecord ==
    /\ \A f \in Futures : wpc[f] # "raised"
    /\ mpc # "raised"

\* C20: the judge is invoked at most once for every input record, and never
\* for a record of category "5".
C20_JudgeAtMostOncePerRecord ==
    \A f \in Futures :
        \A p1 \in 1..Len(eval_data[f].value) :
            /\ judge_calls[f][p1] <= 1
            /\ Str(eval_data[f].value[p1].category) = "5" => judge_calls[f][p1] = 0

\* A worker has passed an adversarial record and has judged the record
\* after it.
C20_Witness ==
    \E f \in Futures :
        \E p1 \in 1..Len(eval_data[f].value) :
            /\ Str(eval_data[f].value[p1].category) = "5"
            /\ p1 + 1 <= Len(eval_data[f].value)
            /\ judge_calls[f][p1 + 1] = 1

(* ---- the aggregator of memzero/search.py ---- *)
\* The snapshot a completed flush of mapping leaves
SnapshotOf(mapping) ==
    [exists |-> TRUE, written |-> Serialize(mapping), complete |-> TRUE]

\* C14: every mutation of self.results and every write of the snapshot file
\* happens while the aggregator's lock is held.
C14_WritesHoldTheLock ==
    [][(ms_results' # ms_results \/ disk_file' # disk_file)
            => lock_holder # None]_vars

\* C15: a flush is a full overwrite and idempotent: when it has written the
\* file, the snapshot is the serialization of the whole current mapping and
\* of nothing else, and a flush that follows another with no append in
\* between leaves the snapshot the earlier one left.
C15_FlushOverwritesAndIsIdempotent ==
    ms_pc = "save_close" =>
        /\ disk_file = SnapshotOf(ms_results)
        /\ (flushes >= 1 /\ ~appended) => disk_file = last_flushed

\* A second flush over a snapshot that already holds records, with no
\* append since the first one.
C15_Witness ==
    /\ ms_pc = "save_close"
    /\ flushes >= 1
    /\ ~appended
    /\ Len(last_flushed.written) >= 1
    /\ Len(last_flushed.written[1].value) >= 2

\* C16: once a first flush has completed, the snapshot file holds at every
\* later instant a complete serialization of a past state of the mapping:
\* the one the latest completed flush wrote, or the current one.
C16_SnapshotAlwaysComplete ==
    flushes >= 1 =>
        /\ disk_file.exists
        /\ disk_file.complete
        /\ disk_file \in {last_flushed, SnapshotOf(ms_results)}

\* The records of conversation key are in the file.
OnDisk(key) ==
    \E w \in 1..Len(disk_file.written) :
        disk_file.written[w] =
            [key |-> ToString(key), value |-> DictGet(ms_results, key, <<>>)]

\* C17: from the moment processing of conversation idx begins, the snapshot
\* on disk contains every record of conversations 0..idx-1: at any instant
\* the records missing from disk belong to the conversation in progress.
C17_OnlyCurrentConversationMissing ==
    ms_pc \in {"search_1", "search_2", "generate", "save_lock", "save_open",
               "save_dump", "save_close", "done", "raised"} =>
        \A e \in 1..Len(ms_results) :
            ms_results[e].key < ms_idx => OnDisk(ms_results[e].key)

\* While no flush is writing the file, the records of the earlier
\* conversations are all on disk.
EarlierConversationsOnDiskOutsideFlush ==
    ms_pc \in {"search_1", "search_2", "generate", "save_lock", "done", "raised"} =>
        \A e \in 1..Len(ms_results) :
            ms_results[e].key < ms_idx => OnDisk(ms_results[e].key)

\* C18: a question whose search or generation call fails yields a result
\* record carrying the error: the failure never ends process_data_file, the
\* remaining questions and conversations are still processed.
C18_QuestionFailureIsRecorded ==
    /\ ms_pc # "raised"
    /\ ms_error = None

(* ---- process_questions_parallel ---- *)
\* C21: process_questions_parallel returns a list whose i-th element is the
\* result of the i-th question of its input, whatever the number of workers
\* and the order in which the questions finish.
C21_ResultsInInputOrder ==
    ms_call = "process_questions_parallel" =>
        /\ \A i \in 1..Len(qa_results) :
              /\ qa_results[i] = pq_out[i]
              /\ qa_results[i].question = Get(qa_list[i], "question", "")
        /\ ms_pc \in {"save_lock", "save_open", "save_dump", "save_close", "returned"}
              => Len(qa_results) = Len(qa_list)

\* Two workers, the second question finished before the first, and the
\* method has returned.
C21_Witness ==
    /\ ms_pc = "returned"
    /\ pq_workers >= 2
    /\ Len(qa_results) >= 2
    /\ pq_finished[1] = 2

\* C22: when process_questions_parallel has returned, every record it
\* returns is in self.results and in the snapshot its flush wrote.
C22_ReturnedRecordsMergedAndFlushed ==
    ms_pc = "returned" =>
        \A i \in 1..Len(qa_results) :
            /\ \E e \in 1..Len(ms_results) :
                  \E r \in 1..Len(ms_results[e].value) :
                      ms_results[e].value[r] = qa_results[i]
            /\ \E w \in 1..Len(disk_file.written) :
                  \E r \in 1..Len(disk_file.written[w].value) :
                      disk_file.written[w].value[r] = qa_results[i]

(* ---- answer_question ---- *)
\* The calls logged for one question: the retrieval of the first speaker,
\* the retrieval of the second speaker, then one generation call whose
\* prompt holds the memories both retrievals returned.
OpsInOrder(ops, speaker_1_user_id, speaker_2_user_id) ==
    /\ Len(ops) <= 3
    /\ Len(ops) >= 1 =>
          /\ ops[1].op = "search"
          /\ ops[1].request.user_id = speaker_1_user_id
    /\ Len(ops) >= 2 =>
          /\ ops[2].op = "search"
          /\ ops[2].request.user_id = speaker_2_user_id
    /\ Len(ops) >= 3 =>
          /\ ops[3].op = "generate"
          /\ ops[3].prompt.speaker_1_memories =
                MemoryLines(ops[1].found.semantic_memories)
          /\ ops[3].prompt.speaker_2_memories =
                MemoryLines(ops[2].found.semantic_memories)
          /\ ops[3].prompt.speaker_1_graph_memories = ops[1].found.graph_memories
          /\ ops[3].prompt.speaker_2_graph_memories = ops[2].found.graph_memories

\* The logs of all questions, of either entry point
QuestionLogs ==
    {ms_ops[k].ops : k \in 1..Len(ms_ops)} \cup {pq_ops[i] : i \in 1..Len(pq_ops)}

\* C26: per question the searcher makes one retrieval for each of the two
\* speaker identities and then exactly one generation call, issued only
\* after both retrievals have returned and with both memory sets in its
\* prompt.
C26_TwoRetrievalsThenOneGeneration ==
    /\ \A k \in 1..Len(ms_ops) :
          /\ OpsInOrder(ms_ops[k].ops, SpeakerA(ms_ops[k].idx), SpeakerB(ms_ops[k].idx))
          /\ \A k2 \in 1..Len(ms_ops) :
                (ms_ops[k2].idx = ms_ops[k].idx /\ ms_ops[k2].q = ms_ops[k].q) => k2 = k
    /\ \A e \in 1..Len(ms_results) :
          \A r \in 1..Len(ms_results[e].value) :
              \E k \in 1..Len(ms_ops) :
                  /\ ms_ops[k].idx = ms_results[e].key
                  /\ ms_ops[k].q = r - 1
                  /\ Len(ms_ops[k].ops) = 3
    /\ \A i \in 1..Len(pq_ops) :
          /\ OpsInOrder(pq_ops[i], PqSpeakerA, PqSpeakerB)
          /\ pq_pc[i] = "done" => Len(pq_ops[i]) = 3

\* A question of process_data_file is answered from two different memory
\* sets.
C26_Witness ==
    /\ Len(ms_results) >= 1
    /\ Len(ms_ops) >= 1
    /\ Len(ms_ops[1].ops) = 3
    /\ ms_ops[1].ops[3].prompt.speaker_1_memories # <<>>
    /\ ms_ops[1].ops[3].prompt.speaker_1_memories
          # ms_ops[1].ops[3].prompt.speaker_2_memories

\* C27: the search mode is fixed at construction, and the graph-aware
\* template is used exactly when the requests carry enable_graph and the
\* relations are parsed from the responses.
C27_GraphTemplateIffGraphRequests ==
    /\ [](\A ops \in QuestionLogs :
            /\ \A n \in 1..Len(ops) :
                  ops[n].op = "search" =>
                      ("enable_graph" \in DOMAIN ops[n].request) = ops[n].relations_parsed
            /\ Len(ops) = 3 =>
                  (ops[3].prompt.template = "ANSWER_PROMPT_GRAPH")
                      = (\A n \in 1..2 : /\ "enable_graph" \in DOMAIN ops[n].request
                                         /\ ops[n].relations_parsed))
    /\ [][is_graph' = is_graph /\ answer_prompt' = answer_prompt]_vars

\* A question answered in graph mode by a worker of the pool.
C27_Witness ==
    \E i \in 1..Len(pq_ops) :
        /\ Len(pq_ops[i]) = 3
        /\ pq_ops[i][3].prompt.template = "ANSWER_PROMPT_GRAPH"
        /\ pq_ops[i][1].relations_parsed

(* ---- records that lack keys ---- *)
\* The value the claim names for key: the record's own, or the default
ValueOrDefault(d, key, default) == IF key \in DOMAIN d THEN d[key] ELSE default

\* C24: conversion never fails because an optional key is missing: for a
\* record that has its session list, whichever of the session dates, the
\* question type, the question date, the question, the answer and the
\* role, content and has_answer of a turn are absent, the conversion
\* succeeds and puts an empty or default value in the place of each.
C24_MissingOptionalKeysGetDefaults ==
    (fpc \in {"sparse_converted", "convert_raised"}
        /\ "haystack_sessions" \in DOMAIN conversation_data) =>
        /\ fpc = "sparse_converted"
        /\ converted.query = ValueOrDefault(conversation_data, "question", "")
        /\ converted.ground_truth = ValueOrDefault(conversation_data, "answer", "")
        /\ converted.metadata.question_date
              = ValueOrDefault(conversation_data, "question_date", "")
        /\ converted.metadata.question_type
              = ValueOrDefault(conversation_data, "question_type", "")
        /\ Len(converted.messages) = TurnCount(conversation_data.haystack_sessions)
        /\ \A s \in 1..Len(conversation_data.haystack_sessions) :
              \A t \in 1..Len(conversation_data.haystack_sessions[s]) :
                  LET turn == conversation_data.haystack_sessions[s][t]
                      before == TurnCount(SubSeq(conversation_data.haystack_sessions,
                                                 1, s - 1))
                      message == converted.messages[before + t]
                      dates == ValueOrDefault(conversation_data, "haystack_dates", <<>>)
                  IN /\ message.role = ValueOrDefault(turn, "role", "user")
                     /\ message.content = ValueOrDefault(turn, "content", "")
                     /\ message.metadata.has_answer
                           = ValueOrDefault(turn, "has_answer", FALSE)
                     /\ message.metadata.session_date
                           = IF s <= Len(dates) THEN dates[s] ELSE ""

\* A record with nothing but its session list, whose turns lack the role,
\* the content or the answer flag, has been converted.
C24_Witness ==
    /\ fpc = "sparse_converted"
    /\ DOMAIN conversation_data = {"haystack_sessions"}
    /\ Len(converted.messages) = 3
    /\ \E t \in 1..3 : "role" \notin DOMAIN conversation_data.haystack_sessions[1][t]
    /\ \E t \in 1..3 : "content" \notin DOMAIN conversation_data.haystack_sessions[1][t]

\* C25: converting a record that has no session list fails with
\* MalformedRecord; no converted conversation is returned for it.
C25_NoSessionListIsMalformed ==
    (fpc \in {"sparse_converted", "convert_raised"}
        /\ "haystack_sessions" \notin DOMAIN conversation_data) =>
        fpc = "convert_raised"

(* ---- the adders over several conversations ---- *)
\* The conversation a task belongs to: the idx that ends its user_id
\* (f"{speaker}_{idx}")
ConversationOf(t) ==
    LET uid == tasks_data[t].user_id
        at == {i \in 1..Len(uid) : SubSeq(uid, i, i) = "_"}
    IN SubSeq(uid, (CHOOSE i \in at : \A j \in at : j <= i) + 1, Len(uid))

\* C23: conversations are added one after the other: batches of two
\* different conversations are never in flight together, and a request of
\* a later conversation is issued only when every batch of the earlier
\* ones has reached its outcome.
C23_ConversationsAddedSequentially ==
    /\ \A t1 \in InFlight, t2 \in InFlight : ConversationOf(t1) = ConversationOf(t2)
    /\ \A t1 \in Tasks, t2 \in Tasks :
          (ConversationOf(t1) # ConversationOf(t2) /\ t1 < t2 /\ posts[t2] > 0)
              => tpc[t1] = "done"

(* ---- independence of the depths ---- *)
\* The result the calls made for one depth lead to, as a function of the
\* depth and of how these calls ended
ResultFromCalls(top_k, call) ==
    IF "raises" \in DOMAIN call.search
    THEN ErrorResult(top_k, call.search.raises)
    ELSE IF ProcessRaises(call.search.results)
    THEN ErrorResult(top_k, "KeyError")
    ELSE IF "raises" \in DOMAIN call.generate
    THEN ErrorResult(top_k, call.generate.raises)
    ELSE LET mems == ProcessMemories(call.search.results)
             answer == Strip(call.generate.content)
             prompt == RenderAnswerPrompt(FormatMemories(mems), SearchQuery)
         IN [top_k |-> top_k,
             search_time_ms |-> call.search.time,
             response_time_ms |-> call.generate.time,
             total_time_ms |-> call.search.time + call.generate.time,
             retrieved_memories_count |-> Len(mems),
             answer |-> answer,
             retrieved_memories |-> mems,
             token_counts |-> TokenCounts(call.generate.usage,
                                          EstimateInputTokens(SearchSystemMessage, prompt),
                                          TokenizerLen(answer))]

\* C30: the result recorded for a depth is determined by the depth and by
\* the search and generation calls issued for it alone: runs that differ
\* only in how the calls of other depths ended record the same result.
C30_ResultDependsOnOwnCallsOnly ==
    searcher = "longmemeval" =>
        \A i \in 1..Len(search_results) :
            search_results[i] = ResultFromCalls(top_k_values[i], depth_calls[i])

\* A depth answered from its own memories after an earlier depth of the
\* same size failed.
C30_Witness ==
    /\ searcher = "longmemeval"
    /\ Len(search_results) = 2
    /\ top_k_values[1] = top_k_values[2]
    /\ "error" \in DOMAIN search_results[1]
    /\ "error" \notin DOMAIN search_results[2]
    /\ search_results[2].retrieved_memories_count >= 1

(* ---- termination of add_conversation_async ---- *)
\* C29: add_conversation_async terminates without deadlock: when every POST
\* attempt returns or times out, every batch task gets through the gate,
\* reaches its outcome within its attempt budget and gives its permit
\* back, and the call returns its metrics.
C29_AddConversationTerminates ==
    <>(/\ apc = "returned"
       /\ \A t \in Tasks : tpc[t] = "done" /\ posts[t] \in 1..AddRetries
       /\ sem_value = max_concurrent)

\* The call has returned after more batches than permits, one of them
\* having used all its attempts.
C29_Witness ==
    /\ adder = "longmemeval"
    /\ apc = "returned"
    /\ Len(tasks_data) > max_concurrent
    /\ \E t \in Tasks : posts[t] = AddRetries /\ ~tresult[t].success

(* ---- the loop of run_longmemeval_evaluation ---- *)
\* C28: an exception raised while a conversation is added, searched or
\* evaluated becomes an error entry of that conversation and the loop goes
\* on: the results list has one entry per conversation, in dataset order,
\* and each intermediate file, written after conversation number 10k, holds
\* exactly the first 10k entries.
C28_OneEntryPerConversation ==
    run_pc \in {"loop", "done"} =>
        /\ Len(run_results) = run_idx
        /\ run_pc = "done" => run_idx = Len(converted_data)
        /\ \A i \in 1..Len(run_results) :
              /\ run_results[i].conversation_id = converted_data[i].conversation_id
              /\ ("error" \in DOMAIN run_results[i]) = (run_outcomes[i] # "ok")
              /\ run_outcomes[i] # "ok" => run_results[i].error = run_outcomes[i]
        /\ Len(intermediate_files) = run_idx \div SaveEvery
        /\ \A f \in 1..Len(intermediate_files) :
              /\ intermediate_files[f].name
                    = "intermediate_results_" \o ToString(SaveEvery * f)
              /\ intermediate_files[f].content = SubSeq(run_results, 1, SaveEvery * f)

\* Ten conversations, the third of which failed and the fourth did not,
\* and the intermediate file written after the tenth.
C28_Witness ==
    /\ run_pc = "done"
    /\ Len(intermediate_files) = 1
    /\ Len(intermediate_files[1].content) = SaveEvery
    /\ run_outcomes[3] = "search_and_respond raised"
    /\ run_outcomes[4] = "ok"

(* ---- the permits of the admission semaphore ---- *)
\* C36: the permits of the semaphore are conserved: the free permits plus
\* the tasks inside `async with semaphore` (awaiting a response or sleeping
\* between two attempts) are max_concurrent in every state, a finished task
\* holds none whether it succeeded or failed, and all permits are free when
\* add_conversation_async has returned.
C36_PermitsConserved ==
    (adder = "longmemeval" /\ apc # "init") =>
        /\ sem_value \in 0..max_concurrent
        /\ sem_value + Cardinality(Holders) = max_concurrent
        /\ apc = "returned" => (Holders = {} /\ sem_value = max_concurrent)

\* Every permit is taken, one by a task that sleeps between two attempts,
\* while another batch waits at the gate and a finished batch has given its
\* permit back.
C36_Witness ==
    /\ adder = "longmemeval"
    /\ apc = "await"
    /\ sem_value = 0
    /\ \E t1, t2, t3 \in Tasks :
          /\ tpc[t1] = "sleep"
          /\ tpc[t2] = "waiting"
          /\ tpc[t3] = "done"

(* ---- the token and time totals of add_conversation_async ---- *)
ContentChars(messages) ==
    SumSeq([i \in 1..Len(messages) |-> Len(messages[i].content)])

SuccessfulTasks == {t \in Tasks : final_response[t] = "ok"}

RECURSIVE SumOver(_, _)
SumOver(S, f) ==
    IF S = {} THEN 0
    ELSE LET x == CHOOSE y \in S : TRUE IN f[x] + SumOver(S \ {x}, f)

\* C37: total_tokens is the sum, over the successful batches only, of
\* floor(content characters of the batch / 4); a failed batch adds neither
\* tokens nor time, and total_tokens is at most
\* floor(content characters of the conversation / 4).
C37_TokensOfSuccessfulBatchesOnly ==
    (adder = "longmemeval" /\ apc = "returned") =>
        /\ metrics.add_phase.total_tokens =
              SumOver(SuccessfulTasks,
                      [t \in Tasks |-> ContentChars(tasks_data[t].messages) \div 4])
        /\ metrics.add_phase.total_time_ms =
              1000 * SumOver(SuccessfulTasks,
                             [t \in Tasks |-> end_time[t] - start_time[t]])
        /\ \A t \in Tasks \ SuccessfulTasks : tresult[t].time_taken = 0
        /\ metrics.add_phase.total_tokens <= ContentChars(add_input.messages) \div 4

\* The call returned after a batch with tokens failed, having spent time on
\* its attempts, and a batch with tokens succeeded.
C37_Witness ==
    /\ adder = "longmemeval"
    /\ apc = "returned"
    /\ \E t1, t2 \in Tasks :
          /\ ~tresult[t1].success /\ tresult[t1].token_count > 0
          /\ end_time[t1] > start_time[t1]
          /\ tresult[t2].success /\ tresult[t2].token_count > 0
    /\ metrics.add_phase.total_tokens > 0

(* ---- the completion order of the batches ---- *)
\* The tasks whose results the loop of add_conversation_async has consumed
AwaitedTasks ==
    {t \in Tasks : tpc[t] = "done"} \ {completed[i] : i \in 1..Len(completed)}

\* The orders in which the tasks of S can be consumed
Orders(S) ==
    {o \in [1..Cardinality(S) -> S] : \A i, j \in 1..Cardinality(S) : o[i] = o[j] => i = j}

\* The totals after the results of the tasks of `order` are consumed in order
RECURSIVE AccumulateInOrder(_)
AccumulateInOrder(order) ==
    IF order = <<>> THEN ZeroAcc
    ELSE Accumulate(AccumulateInOrder(SubSeq(order, 1, Len(order) - 1)),
                    tresult[order[Len(order)]])

Counts(a) == <<a.successful_batches, a.failed_batches, a.total_tokens>>

\* C33: the counts add_conversation_async has accumulated, and the counts it
\* returns, are those of consuming the same per-batch outcomes in any
\* other completion order.
C33_CountsIndependentOfCompletionOrder ==
    (adder = "longmemeval" /\ apc \in {"await", "returned"}) =>
        /\ \A order \in Orders(AwaitedTasks) :
              Counts(AccumulateInOrder(order)) = Counts(acc)
        /\ apc = "returned" =>
              /\ AwaitedTasks = Tasks
              /\ Counts(metrics.add_phase) = Counts(acc)

\* The call returned after the second batch completed before the first, the
\* two batches having different outcomes.
C33_Witness ==
    /\ adder = "longmemeval"
    /\ apc = "returned"
    /\ Len(tasks_data) = 2
    /\ end_time[2] < end_time[1]
    /\ tresult[1].success # tresult[2].success
    /\ tresult[1].token_count # tresult[2].token_count

(* ---- the add-phase total time ---- *)
RECURSIVE SetMax(_)
SetMax(S) ==
    LET x == CHOOSE y \in S : TRUE
    IN IF S = {x} THEN x
       ELSE LET m == SetMax(S \ {x}) IN IF x > m THEN x ELSE m

RECURSIVE SetMin(_)
SetMin(S) ==
    LET x == CHOOSE y \in S : TRUE
    IN IF S = {x} THEN x
       ELSE LET m == SetMin(S \ {x}) IN IF x < m THEN x ELSE m

\* Seconds from the start of the first batch to the completion of the last
WallSeconds ==
    IF Tasks = {} THEN 0
    ELSE SetMax({end_time[t] : t \in Tasks}) - SetMin({start_time[t] : t \in Tasks})

\* C32: the total time add_conversation_async returns is the wall time of
\* the submission: the time from the start of its first batch to the
\* completion of its last batch.
C32_TotalTimeIsWallTime ==
    (adder = "longmemeval" /\ apc = "returned") =>
        metrics.add_phase.total_time_ms = 1000 * WallSeconds

(* ---- the identifiers of the converted messages ---- *)
\* C39: within one converted conversation the turn_id values are pairwise
\* distinct, and the identifier of the k-th produced message ends in
\* "_turn" followed by k, its 0-based position in the whole conversation.
C39_TurnIdNumbersWholeConversation ==
    fpc = "converted" =>
        /\ \A i, j \in 1..Len(conv_messages) :
              conv_messages[i].metadata.turn_id = conv_messages[j].metadata.turn_id
                 => i = j
        /\ \A k \in 1..Len(conv_messages) :
              EndsWith(conv_messages[k].metadata.turn_id, "_turn" \o ToString(k - 1))

\* A conversation of two sessions with several turns each: the turns of the
\* second session have a position in the conversation that is not their
\* position in the session.
C39_Witness ==
    /\ fpc = "converted"
    /\ Len(SessionsOf(conversation_data)) = 2
    /\ Len(SessionsOf(conversation_data)[1]) >= 2
    /\ Len(SessionsOf(conversation_data)[2]) >= 2
    /\ conv_messages[Len(conv_messages)].metadata.session_index = 1

(* ---- the error-flagged depth results ---- *)
\* C38: an error-flagged depth result has search, response and total time 0,
\* an empty answer, retrieved_memories_count 0, an empty memory list and
\* empty token counts, also when the retrieval of that depth succeeded and
\* only the generation failed.
C38_ErrorResultIsZeroed ==
    searcher = "longmemeval" =>
        \A i \in 1..Len(search_results) :
            "error" \in DOMAIN search_results[i] =>
                /\ search_results[i].search_time_ms = 0
                /\ search_results[i].response_time_ms = 0
                /\ search_results[i].total_time_ms = 0
                /\ search_results[i].answer = ""
                /\ search_results[i].retrieved_memories_count = 0
                /\ search_results[i].retrieved_memories = <<>>
                /\ search_results[i].token_counts = <<>>

\* A depth whose retrieval returned memories after a measured time and
\* whose generation then failed has its error-flagged result.
C38_Witness ==
    /\ searcher = "longmemeval"
    /\ \E i \in 1..Len(search_results) :
          /\ "error" \in DOMAIN search_results[i]
          /\ depth_outcomes[i] = "generate_failed"
          /\ "results" \in DOMAIN depth_calls[i].search
          /\ Len(depth_calls[i].search.results) >= 1
          /\ depth_calls[i].search.time > 0

(* ---- the attempt bound of the searcher's calls ---- *)
\* The attempts the running retry loop has started: one per failed pass, and
\* the pass in progress.
AttemptsStarted == retries + 1

\* C34: the memory search call and the answer-generation call apply the
\* same attempt bound: with max_retries = 3 each of them is attempted at
\* most 3 times before its error propagates.
C34_SameAttemptBound ==
    (searcher = "longmemeval" /\ spc \in {"search", "generate"}) =>
        AttemptsStarted <= SearchMaxRetries

(* ---- writes before reads in run_longmemeval_evaluation ---- *)
\* C31: for a conversation no search request is issued before every write
\* batch of the conversation has reached its outcome and the add phase has
\* returned, and once the add phase has returned the search phase can start
\* whatever the number of failed batches is.
C31_SearchAfterAllWriteOutcomes ==
    /\ spc # "init" =>
          /\ apc = "returned"
          /\ \A t \in Tasks : tpc[t] = "done" /\ "success" \in DOMAIN tresult[t]
          /\ metrics.add_phase.successful_batches + metrics.add_phase.failed_batches
                = Len(tasks_data)
    /\ (apc = "returned" /\ spc = "init") => ENABLED RunSearchAndRespond

\* The search phase answered a depth after every one of several write
\* batches of the conversation had failed.
C31_Witness ==
    /\ spc = "done"
    /\ Len(tasks_data) >= 2
    /\ metrics.add_phase.failed_batches = Len(tasks_data)
    /\ \E i \in 1..Len(search_results) : depth_outcomes[i] = "ok"

\* C35: when every call of the mem0 pipeline succeeds, run_evaluation, once
\* process_data_file has written search_results.json, eventually has written
\* evaluation_metrics.json, scores.csv and metadata.json after it, in that
\* order.  The pipeline stops earlier: `threading` is a local name of main,
\* so `threading.Lock()` in run_evaluation raises NameError before
\* evaluation_metrics.json is opened.
C35_FourFilesEventuallyWritten ==
    (m0_pc = "search" /\ disk_file.complete)
        ~> (/\ disk_file.complete
            /\ m0_files = <<EvalMetricsFile, ScoresCsvFile, MetadataFile>>)

====
